---- MODULE Spec2Model ----
(***************************************************************************)
(* A model of the Wasabi instrumentation pass add_hooks                    *)
(* (src/instrumentation/own/wasm-instrumentation/src/instrument/           *)
(* add_hooks.rs): table export, hook registration, and the per-instruction *)
(* rewrite of every function body, together with a small stack machine     *)
(* that runs the emitted instruction sequences.                            *)
(*                                                                         *)
(* The input body is drawn one instruction at a time; an instruction is    *)
(* offered only where Wasm validation admits it (the variable ctrl holds   *)
(* the validator's control and operand stacks), so every body the pass     *)
(* sees is a prefix of a valid function body.                              *)
(***************************************************************************)
EXTENDS Integers, Sequences, FiniteSets, TLC

VARIABLES
  pc,                 \* "start", "hooks", "function", "instr", "end_body", "done",
                      \* "probe", "probed", or the panic that ended the pass
  tables,             \* module.tables: the export name of each table (<<>> = None)
  functions,          \* module.functions (hook imports are appended)
  globals,            \* module.globals: the value type of each global
  module_info,        \* ModuleInfo: functions (snapshot), globals, br_tables
  polymorphic_hooks,  \* PolymorphicHookMap: entries [d, tys, idx]
  call_result_hooks,  \* HashMap result types -> hook: entries [tys, idx]
  monomorphic_hooks,  \* HashMap discriminant -> hook: entries [d, idx]
  ctl_hooks,          \* the hooks held in local variables (if_hook, br_hook, ...)
  fidx,               \* index of the function being instrumented
  locals,             \* types of the function's parameters ++ locals (fresh ones appended)
  original_body,      \* the instructions of the original body consumed so far
  instrumented_body,  \* the new body
  block_stack,        \* Vec<Begin>
  type_stack,         \* TypeStack
  ctrl,               \* Wasm validation state of the input: control frames with operand types
  prev,               \* snapshot taken before the last instruction was handled
  probe,              \* input and result of a helper function run on its own
  limit               \* length of the longest input body drawn

modvars  == <<tables, functions, globals, module_info>>
hookvars == <<polymorphic_hooks, call_result_hooks, monomorphic_hooks, ctl_hooks>>
funvars  == <<fidx, locals, original_body, instrumented_body, block_stack, type_stack, ctrl, prev>>
vars     == <<pc, modvars, hookvars, funvars, probe, limit>>

-----------------------------------------------------------------------------
(* Bounds of the model *)

\* longest input body prefix handed to the pass
MaxBody == 4
\* the same where only constants, locals, globals, if/else/end, drop and
\* select are drawn
MaxPolyBody == 5
\* most tables a module is drawn with
MaxTables == 2
\* most locals handed to save_stack_to_locals on its own
MaxSaved == 3

-----------------------------------------------------------------------------
(* Value types, ast::ValType *)

I32 == "i32"
I64 == "i64"
F32 == "f32"
F64 == "f64"
ValType == {I32, I64, F32, F64}

\* derive(Ord) on ValType: declaration order
TyRank(ty) == CASE ty = I32 -> 0 [] ty = I64 -> 1 [] ty = F32 -> 2 [] ty = F64 -> 3

Last(s) == s[Len(s)]
Front(s) == SubSeq(s, 1, Len(s) - 1)
\* the last n elements of s
TopN(s, n) == SubSeq(s, Len(s) - n + 1, Len(s))
\* s without its last n elements
DropN(s, n) == SubSeq(s, 1, Len(s) - n)
Min(a, b) == IF a < b THEN a ELSE b

RECURSIVE Flatten(_)
Flatten(ss) == IF ss = <<>> THEN <<>> ELSE Head(ss) \o Flatten(Tail(ss))

\* lexicographic order on Vec<ValType>
RECURSIVE VecLess(_, _)
VecLess(a, b) ==
  IF a = <<>> THEN b # <<>>
  ELSE IF b = <<>> THEN FALSE
  ELSE IF Head(a) # Head(b) THEN TyRank(Head(a)) < TyRank(Head(b))
  ELSE VecLess(Tail(a), Tail(b))

\* Vec::sort followed by Vec::dedup
RECURSIVE SortDedup(_)
SortDedup(vs) ==
  IF vs = <<>> THEN <<>>
  ELSE LET rest == SortDedup(Tail(vs))
           v == Head(vs)
           lo == SelectSeq(rest, LAMBDA w : VecLess(w, v))
           hi == SelectSeq(rest, LAMBDA w : VecLess(v, w))
       IN lo \o <<v>> \o hi

-----------------------------------------------------------------------------
(* Instructions, ast::highlevel::Instr.  One record shape for all of them: *)
(* n, m are integer immediates (index, label, constant, memarg), r the     *)
(* block type or the results of a call_indirect type, p its parameters,    *)
(* t a list of integers (br_table targets, the limbs of an i64 constant).  *)

Instr(op, n, m, p, r, t) == [op |-> op, n |-> n, m |-> m, p |-> p, r |-> r, t |-> t]
Plain(op) == Instr(op, 0, 0, <<>>, <<>>, <<>>)
WithIdx(op, n) == Instr(op, n, 0, <<>>, <<>>, <<>>)

Nop == Plain("nop")
Unreachable == Plain("unreachable")
Block(bt) == Instr("block", 0, 0, <<>>, bt, <<>>)
Loop(bt) == Instr("loop", 0, 0, <<>>, bt, <<>>)
If(bt) == Instr("if", 0, 0, <<>>, bt, <<>>)
Else == Plain("else")
End == Plain("end")
Br(l) == WithIdx("br", l)
BrIf(l) == WithIdx("br_if", l)
BrTable(targets, default) == Instr("br_table", default, 0, <<>>, <<>>, targets)
Return == Plain("return")
Call(f) == WithIdx("call", f)
CallIndirect(params, results) == Instr("call_indirect", 0, 0, params, results, <<>>)
Drop == Plain("drop")
Select == Plain("select")
GetLocal(x) == WithIdx("get_local", x)
SetLocal(x) == WithIdx("set_local", x)
TeeLocal(x) == WithIdx("tee_local", x)
GetGlobal(x) == WithIdx("get_global", x)
SetGlobal(x) == WithIdx("set_global", x)
CurrentMemory == Plain("current_memory")
GrowMemory == Plain("grow_memory")
I32Const(n) == WithIdx("i32.const", n)
I64Const(limbs) == Instr("i64.const", 0, 0, <<>>, <<>>, limbs)
F32Const(n) == WithIdx("f32.const", n)
F64Const(n) == WithIdx("f64.const", n)
\* a load or store with its memarg
Mem(op, offset, alignment) == Instr(op, offset, alignment, <<>>, <<>>, <<>>)
I32WrapI64 == Plain("i32.wrap/i64")
I64ShrU == Plain("i64.shr_u")

\* the instructions add_hooks registers a monomorphic hook for, with the group
\* and types Instr::group gives them
MonomorphicInstrs ==
  <<
  [name |-> "i32.const", group |-> "Const", inputs |-> <<>>, results |-> <<"i32">>],
  [name |-> "i64.const", group |-> "Const", inputs |-> <<>>, results |-> <<"i64">>],
  [name |-> "f32.const", group |-> "Const", inputs |-> <<>>, results |-> <<"f32">>],
  [name |-> "f64.const", group |-> "Const", inputs |-> <<>>, results |-> <<"f64">>],
  [name |-> "i32.eqz", group |-> "Unary", inputs |-> <<"i32">>, results |-> <<"i32">>],
  [name |-> "i64.eqz", group |-> "Unary", inputs |-> <<"i64">>, results |-> <<"i32">>],
  [name |-> "i32.clz", group |-> "Unary", inputs |-> <<"i32">>, results |-> <<"i32">>],
  [name |-> "i32.ctz", group |-> "Unary", inputs |-> <<"i32">>, results |-> <<"i32">>],
  [name |-> "i32.popcnt", group |-> "Unary", inputs |-> <<"i32">>, results |-> <<"i32">>],
  [name |-> "i64.clz", group |-> "Unary", inputs |-> <<"i64">>, results |-> <<"i64">>],
  [name |-> "i64.ctz", group |-> "Unary", inputs |-> <<"i64">>, results |-> <<"i64">>],
  [name |-> "i64.popcnt", group |-> "Unary", inputs |-> <<"i64">>, results |-> <<"i64">>],
  [name |-> "f32.abs", group |-> "Unary", inputs |-> <<"f32">>, results |-> <<"f32">>],
  [name |-> "f32.neg", group |-> "Unary", inputs |-> <<"f32">>, results |-> <<"f32">>],
  [name |-> "f32.ceil", group |-> "Unary", inputs |-> <<"f32">>, results |-> <<"f32">>],
  [name |-> "f32.floor", group |-> "Unary", inputs |-> <<"f32">>, results |-> <<"f32">>],
  [name |-> "f32.trunc", group |-> "Unary", inputs |-> <<"f32">>, results |-> <<"f32">>],
  [name |-> "f32.nearest", group |-> "Unary", inputs |-> <<"f32">>, results |-> <<"f32">>],
  [name |-> "f32.sqrt", group |-> "Unary", inputs |-> <<"f32">>, results |-> <<"f32">>],
  [name |-> "f64.abs", group |-> "Unary", inputs |-> <<"f64">>, results |-> <<"f64">>],
  [name |-> "f64.neg", group |-> "Unary", inputs |-> <<"f64">>, results |-> <<"f64">>],
  [name |-> "f64.ceil", group |-> "Unary", inputs |-> <<"f64">>, results |-> <<"f64">>],
  [name |-> "f64.floor", group |-> "Unary", inputs |-> <<"f64">>, results |-> <<"f64">>],
  [name |-> "f64.trunc", group |-> "Unary", inputs |-> <<"f64">>, results |-> <<"f64">>],
  [name |-> "f64.nearest", group |-> "Unary", inputs |-> <<"f64">>, results |-> <<"f64">>],
  [name |-> "f64.sqrt", group |-> "Unary", inputs |-> <<"f64">>, results |-> <<"f64">>],
  [name |-> "i32.wrap/i64", group |-> "Unary", inputs |-> <<"i64">>, results |-> <<"i32">>],
  [name |-> "i32.trunc_s/f32", group |-> "Unary", inputs |-> <<"f32">>, results |-> <<"i32">>],
  [name |-> "i32.trunc_u/f32", group |-> "Unary", inputs |-> <<"f32">>, results |-> <<"i32">>],
  [name |-> "i32.trunc_s/f64", group |-> "Unary", inputs |-> <<"f64">>, results |-> <<"i32">>],
  [name |-> "i32.trunc_u/f64", group |-> "Unary", inputs |-> <<"f64">>, results |-> <<"i32">>],
  [name |-> "i64.extend_s/i32", group |-> "Unary", inputs |-> <<"i32">>, results |-> <<"i64">>],
  [name |-> "i64.extend_u/i32", group |-> "Unary", inputs |-> <<"i32">>, results |-> <<"i64">>],
  [name |-> "i64.trunc_s/f32", group |-> "Unary", inputs |-> <<"f32">>, results |-> <<"i64">>],
  [name |-> "i64.trunc_u/f32", group |-> "Unary", inputs |-> <<"f32">>, results |-> <<"i64">>],
  [name |-> "i64.trunc_s/f64", group |-> "Unary", inputs |-> <<"f64">>, results |-> <<"i64">>],
  [name |-> "i64.trunc_u/f64", group |-> "Unary", inputs |-> <<"f64">>, results |-> <<"i64">>],
  [name |-> "f32.convert_s/i32", group |-> "Unary", inputs |-> <<"i32">>, results |-> <<"f32">>],
  [name |-> "f32.convert_u/i32", group |-> "Unary", inputs |-> <<"i32">>, results |-> <<"f32">>],
  [name |-> "f32.convert_s/i64", group |-> "Unary", inputs |-> <<"i64">>, results |-> <<"f32">>],
  [name |-> "f32.convert_u/i64", group |-> "Unary", inputs |-> <<"i64">>, results |-> <<"f32">>],
  [name |-> "f32.demote/f64", group |-> "Unary", inputs |-> <<"f64">>, results |-> <<"f32">>],
  [name |-> "f64.convert_s/i32", group |-> "Unary", inputs |-> <<"i32">>, results |-> <<"f64">>],
  [name |-> "f64.convert_u/i32", group |-> "Unary", inputs |-> <<"i32">>, results |-> <<"f64">>],
  [name |-> "f64.convert_s/i64", group |-> "Unary", inputs |-> <<"i64">>, results |-> <<"f64">>],
  [name |-> "f64.convert_u/i64", group |-> "Unary", inputs |-> <<"i64">>, results |-> <<"f64">>],
  [name |-> "f64.promote/f32", group |-> "Unary", inputs |-> <<"f32">>, results |-> <<"f64">>],
  [name |-> "i32.reinterpret/f32", group |-> "Unary", inputs |-> <<"f32">>, results |-> <<"i32">>],
  [name |-> "i64.reinterpret/f64", group |-> "Unary", inputs |-> <<"f64">>, results |-> <<"i64">>],
  [name |-> "f32.reinterpret/i32", group |-> "Unary", inputs |-> <<"i32">>, results |-> <<"f32">>],
  [name |-> "f64.reinterpret/i64", group |-> "Unary", inputs |-> <<"i64">>, results |-> <<"f64">>],
  [name |-> "i32.eq", group |-> "Binary", inputs |-> <<"i32", "i32">>, results |-> <<"i32">>],
  [name |-> "i32.ne", group |-> "Binary", inputs |-> <<"i32", "i32">>, results |-> <<"i32">>],
  [name |-> "i32.lt_s", group |-> "Binary", inputs |-> <<"i32", "i32">>, results |-> <<"i32">>],
  [name |-> "i32.lt_u", group |-> "Binary", inputs |-> <<"i32", "i32">>, results |-> <<"i32">>],
  [name |-> "i32.gt_s", group |-> "Binary", inputs |-> <<"i32", "i32">>, results |-> <<"i32">>],
  [name |-> "i32.gt_u", group |-> "Binary", inputs |-> <<"i32", "i32">>, results |-> <<"i32">>],
  [name |-> "i32.le_s", group |-> "Binary", inputs |-> <<"i32", "i32">>, results |-> <<"i32">>],
  [name |-> "i32.le_u", group |-> "Binary", inputs |-> <<"i32", "i32">>, results |-> <<"i32">>],
  [name |-> "i32.ge_s", group |-> "Binary", inputs |-> <<"i32", "i32">>, results |-> <<"i32">>],
  [name |-> "i32.ge_u", group |-> "Binary", inputs |-> <<"i32", "i32">>, results |-> <<"i32">>],
  [name |-> "i64.eq", group |-> "Binary", inputs |-> <<"i64", "i64">>, results |-> <<"i32">>],
  [name |-> "i64.ne", group |-> "Binary", inputs |-> <<"i64", "i64">>, results |-> <<"i32">>],
  [name |-> "i64.lt_s", group |-> "Binary", inputs |-> <<"i64", "i64">>, results |-> <<"i32">>],
  [name |-> "i64.lt_u", group |-> "Binary", inputs |-> <<"i64", "i64">>, results |-> <<"i32">>],
  [name |-> "i64.gt_s", group |-> "Binary", inputs |-> <<"i64", "i64">>, results |-> <<"i32">>],
  [name |-> "i64.gt_u", group |-> "Binary", inputs |-> <<"i64", "i64">>, results |-> <<"i32">>],
  [name |-> "i64.le_s", group |-> "Binary", inputs |-> <<"i64", "i64">>, results |-> <<"i32">>],
  [name |-> "i64.le_u", group |-> "Binary", inputs |-> <<"i64", "i64">>, results |-> <<"i32">>],
  [name |-> "i64.ge_s", group |-> "Binary", inputs |-> <<"i64", "i64">>, results |-> <<"i32">>],
  [name |-> "i64.ge_u", group |-> "Binary", inputs |-> <<"i64", "i64">>, results |-> <<"i32">>],
  [name |-> "f32.eq", group |-> "Binary", inputs |-> <<"f32", "f32">>, results |-> <<"i32">>],
  [name |-> "f32.ne", group |-> "Binary", inputs |-> <<"f32", "f32">>, results |-> <<"i32">>],
  [name |-> "f32.lt", group |-> "Binary", inputs |-> <<"f32", "f32">>, results |-> <<"i32">>],
  [name |-> "f32.gt", group |-> "Binary", inputs |-> <<"f32", "f32">>, results |-> <<"i32">>],
  [name |-> "f32.le", group |-> "Binary", inputs |-> <<"f32", "f32">>, results |-> <<"i32">>],
  [name |-> "f32.ge", group |-> "Binary", inputs |-> <<"f32", "f32">>, results |-> <<"i32">>],
  [name |-> "f64.eq", group |-> "Binary", inputs |-> <<"f64", "f64">>, results |-> <<"i32">>],
  [name |-> "f64.ne", group |-> "Binary", inputs |-> <<"f64", "f64">>, results |-> <<"i32">>],
  [name |-> "f64.lt", group |-> "Binary", inputs |-> <<"f64", "f64">>, results |-> <<"i32">>],
  [name |-> "f64.gt", group |-> "Binary", inputs |-> <<"f64", "f64">>, results |-> <<"i32">>],
  [name |-> "f64.le", group |-> "Binary", inputs |-> <<"f64", "f64">>, results |-> <<"i32">>],
  [name |-> "f64.ge", group |-> "Binary", inputs |-> <<"f64", "f64">>, results |-> <<"i32">>],
  [name |-> "i32.add", group |-> "Binary", inputs |-> <<"i32", "i32">>, results |-> <<"i32">>],
  [name |-> "i32.sub", group |-> "Binary", inputs |-> <<"i32", "i32">>, results |-> <<"i32">>],
  [name |-> "i32.mul", group |-> "Binary", inputs |-> <<"i32", "i32">>, results |-> <<"i32">>],
  [name |-> "i32.div_s", group |-> "Binary", inputs |-> <<"i32", "i32">>, results |-> <<"i32">>],
  [name |-> "i32.div_u", group |-> "Binary", inputs |-> <<"i32", "i32">>, results |-> <<"i32">>],
  [name |-> "i32.rem_s", group |-> "Binary", inputs |-> <<"i32", "i32">>, results |-> <<"i32">>],
  [name |-> "i32.rem_u", group |-> "Binary", inputs |-> <<"i32", "i32">>, results |-> <<"i32">>],
  [name |-> "i32.and", group |-> "Binary", inputs |-> <<"i32", "i32">>, results |-> <<"i32">>],
  [name |-> "i32.or", group |-> "Binary", inputs |-> <<"i32", "i32">>, results |-> <<"i32">>],
  [name |-> "i32.xor", group |-> "Binary", inputs |-> <<"i32", "i32">>, results |-> <<"i32">>],
  [name |-> "i32.shl", group |-> "Binary", inputs |-> <<"i32", "i32">>, results |-> <<"i32">>],
  [name |-> "i32.shr_s", group |-> "Binary", inputs |-> <<"i32", "i32">>, results |-> <<"i32">>],
  [name |-> "i32.shr_u", group |-> "Binary", inputs |-> <<"i32", "i32">>, results |-> <<"i32">>],
  [name |-> "i32.rotl", group |-> "Binary", inputs |-> <<"i32", "i32">>, results |-> <<"i32">>],
  [name |-> "i32.rotr", group |-> "Binary", inputs |-> <<"i32", "i32">>, results |-> <<"i32">>],
  [name |-> "i64.add", group |-> "Binary", inputs |-> <<"i64", "i64">>, results |-> <<"i64">>],
  [name |-> "i64.sub", group |-> "Binary", inputs |-> <<"i64", "i64">>, results |-> <<"i64">>],
  [name |-> "i64.mul", group |-> "Binary", inputs |-> <<"i64", "i64">>, results |-> <<"i64">>],
  [name |-> "i64.div_s", group |-> "Binary", inputs |-> <<"i64", "i64">>, results |-> <<"i64">>],
  [name |-> "i64.div_u", group |-> "Binary", inputs |-> <<"i64", "i64">>, results |-> <<"i64">>],
  [name |-> "i64.rem_s", group |-> "Binary", inputs |-> <<"i64", "i64">>, results |-> <<"i64">>],
  [name |-> "i64.rem_u", group |-> "Binary", inputs |-> <<"i64", "i64">>, results |-> <<"i64">>],
  [name |-> "i64.and", group |-> "Binary", inputs |-> <<"i64", "i64">>, results |-> <<"i64">>],
  [name |-> "i64.or", group |-> "Binary", inputs |-> <<"i64", "i64">>, results |-> <<"i64">>],
  [name |-> "i64.xor", group |-> "Binary", inputs |-> <<"i64", "i64">>, results |-> <<"i64">>],
  [name |-> "i64.shl", group |-> "Binary", inputs |-> <<"i64", "i64">>, results |-> <<"i64">>],
  [name |-> "i64.shr_s", group |-> "Binary", inputs |-> <<"i64", "i64">>, results |-> <<"i64">>],
  [name |-> "i64.shr_u", group |-> "Binary", inputs |-> <<"i64", "i64">>, results |-> <<"i64">>],
  [name |-> "i64.rotl", group |-> "Binary", inputs |-> <<"i64", "i64">>, results |-> <<"i64">>],
  [name |-> "i64.rotr", group |-> "Binary", inputs |-> <<"i64", "i64">>, results |-> <<"i64">>],
  [name |-> "f32.add", group |-> "Binary", inputs |-> <<"f32", "f32">>, results |-> <<"f32">>],
  [name |-> "f32.sub", group |-> "Binary", inputs |-> <<"f32", "f32">>, results |-> <<"f32">>],
  [name |-> "f32.mul", group |-> "Binary", inputs |-> <<"f32", "f32">>, results |-> <<"f32">>],
  [name |-> "f32.div", group |-> "Binary", inputs |-> <<"f32", "f32">>, results |-> <<"f32">>],
  [name |-> "f32.min", group |-> "Binary", inputs |-> <<"f32", "f32">>, results |-> <<"f32">>],
  [name |-> "f32.max", group |-> "Binary", inputs |-> <<"f32", "f32">>, results |-> <<"f32">>],
  [name |-> "f32.copysign", group |-> "Binary", inputs |-> <<"f32", "f32">>, results |-> <<"f32">>],
  [name |-> "f64.add", group |-> "Binary", inputs |-> <<"f64", "f64">>, results |-> <<"f64">>],
  [name |-> "f64.sub", group |-> "Binary", inputs |-> <<"f64", "f64">>, results |-> <<"f64">>],
  [name |-> "f64.mul", group |-> "Binary", inputs |-> <<"f64", "f64">>, results |-> <<"f64">>],
  [name |-> "f64.div", group |-> "Binary", inputs |-> <<"f64", "f64">>, results |-> <<"f64">>],
  [name |-> "f64.min", group |-> "Binary", inputs |-> <<"f64", "f64">>, results |-> <<"f64">>],
  [name |-> "f64.max", group |-> "Binary", inputs |-> <<"f64", "f64">>, results |-> <<"f64">>],
  [name |-> "f64.copysign", group |-> "Binary", inputs |-> <<"f64", "f64">>, results |-> <<"f64">>],
  [name |-> "i32.load", group |-> "MemoryLoad", inputs |-> <<"i32">>, results |-> <<"i32">>],
  [name |-> "i32.load8_s", group |-> "MemoryLoad", inputs |-> <<"i32">>, results |-> <<"i32">>],
  [name |-> "i32.load8_u", group |-> "MemoryLoad", inputs |-> <<"i32">>, results |-> <<"i32">>],
  [name |-> "i32.load16_s", group |-> "MemoryLoad", inputs |-> <<"i32">>, results |-> <<"i32">>],
  [name |-> "i32.load16_u", group |-> "MemoryLoad", inputs |-> <<"i32">>, results |-> <<"i32">>],
  [name |-> "i64.load", group |-> "MemoryLoad", inputs |-> <<"i32">>, results |-> <<"i64">>],
  [name |-> "i64.load8_s", group |-> "MemoryLoad", inputs |-> <<"i32">>, results |-> <<"i64">>],
  [name |-> "i64.load8_u", group |-> "MemoryLoad", inputs |-> <<"i32">>, results |-> <<"i64">>],
  [name |-> "i64.load16_s", group |-> "MemoryLoad", inputs |-> <<"i32">>, results |-> <<"i64">>],
  [name |-> "i64.load16_u", group |-> "MemoryLoad", inputs |-> <<"i32">>, results |-> <<"i64">>],
  [name |-> "i64.load32_s", group |-> "MemoryLoad", inputs |-> <<"i32">>, results |-> <<"i64">>],
  [name |-> "i64.load32_u", group |-> "MemoryLoad", inputs |-> <<"i32">>, results |-> <<"i64">>],
  [name |-> "f32.load", group |-> "MemoryLoad", inputs |-> <<"i32">>, results |-> <<"f32">>],
  [name |-> "f64.load", group |-> "MemoryLoad", inputs |-> <<"i32">>, results |-> <<"f64">>],
  [name |-> "i32.store", group |-> "MemoryStore", inputs |-> <<"i32", "i32">>, results |-> <<>>],
  [name |-> "i32.store8", group |-> "MemoryStore", inputs |-> <<"i32", "i32">>, results |-> <<>>],
  [name |-> "i32.store16", group |-> "MemoryStore", inputs |-> <<"i32", "i32">>, results |-> <<>>],
  [name |-> "i64.store", group |-> "MemoryStore", inputs |-> <<"i32", "i64">>, results |-> <<>>],
  [name |-> "i64.store8", group |-> "MemoryStore", inputs |-> <<"i32", "i64">>, results |-> <<>>],
  [name |-> "i64.store16", group |-> "MemoryStore", inputs |-> <<"i32", "i64">>, results |-> <<>>],
  [name |-> "i64.store32", group |-> "MemoryStore", inputs |-> <<"i32", "i64">>, results |-> <<>>],
  [name |-> "f32.store", group |-> "MemoryStore", inputs |-> <<"i32", "f32">>, results |-> <<>>],
  [name |-> "f64.store", group |-> "MemoryStore", inputs |-> <<"i32", "f64">>, results |-> <<>>]
  >>

MonoNames == {MonomorphicInstrs[i].name : i \in DOMAIN MonomorphicInstrs}

\* Instr::group: Const, Unary, Binary, MemoryLoad, MemoryStore or Other
group(instr) ==
  IF instr.op \in MonoNames
  THEN LET i == CHOOSE j \in DOMAIN MonomorphicInstrs : MonomorphicInstrs[j].name = instr.op
       IN MonomorphicInstrs[i]
  ELSE [name |-> instr.op, group |-> "Other", inputs |-> <<>>, results |-> <<>>]

\* Instr::to_instr_name: the opcode mnemonic
to_instr_name(instr) == instr.op

\* std::mem::discriminant: the variant of the enum, whatever its immediates
discriminant(instr) == instr.op

-----------------------------------------------------------------------------
(* 64-bit integers at the hook boundary *)

\* convert_i64_type: an i64 becomes a pair of i32
convert_i64_type(ty) == IF ty = I64 THEN <<I32, I32>> ELSE <<ty>>

\* the constant 32 of the split, as an i64 in 16-bit limbs
Shift32 == <<32, 0, 0, 0>>

\* convert_i64_instr: instr pushes a value of type ty; for an i64 push its low
\* half, then its high half
convert_i64_instr(instr, ty) ==
  IF ty = I64
  THEN <<instr, I32WrapI64, instr, I64Const(Shift32), I64ShrU, I32WrapI64>>
  ELSE <<instr>>

RECURSIVE Join(_, _)
Join(strs, sep) ==
  IF strs = <<>> THEN ""
  ELSE IF Len(strs) = 1 THEN strs[1]
  ELSE strs[1] \o sep \o Join(Tail(strs), sep)

\* a faulty mangling that names the first type only
append_mangled_tys_first_only(prefix, tys) ==
  prefix \o "_" \o (IF tys = <<>> THEN "" ELSE tys[1])

\* js_codegen::append_mangled_tys
append_mangled_tys(prefix, tys) == prefix \o "_" \o Join(tys, "_")

-----------------------------------------------------------------------------
(* HashMap, as a list of entries with distinct keys *)

MapHas(m, key) == \E i \in DOMAIN m : m[i].key = key

MapGet(m, key) == m[CHOOSE i \in DOMAIN m : m[i].key = key].idx

-----------------------------------------------------------------------------
(* The module *)

FunctionType(params, results) == [params |-> params, results |-> results]

\* a function of the module: its type, and its locals and body when it has code
Function(type_, code, fn_locals, import) ==
  [type_ |-> type_, code |-> code, locals |-> fn_locals, body |-> <<>>, import |-> import]

\* Module::add_function_import: the import that is appended to module.functions;
\* its index is the number of functions before it
add_function_import(type_, module, name) == Function(type_, FALSE, <<>>, <<module, name>>)

\* a faulty add_hook that leaves an i64 argument as it is
add_hook_keeping_i64(name, arg_tys_) ==
  add_function_import(FunctionType(<<I32, I32>> \o arg_tys_, <<>>), "hooks", name)

\* add_hook: two i32 for the location, then the arguments with every i64 expanded
add_hook(name, arg_tys_) ==
  LET arg_tys == <<I32, I32>> \o Flatten([i \in DOMAIN arg_tys_ |-> convert_i64_type(arg_tys_[i])])
  IN add_function_import(FunctionType(arg_tys, <<>>), "hooks", name)

\* a faulty table export that renames every table
export_tables_renaming(ts) == [i \in DOMAIN ts |-> <<"table">>]

\* table export at the start of add_hooks
export_tables(ts) == [i \in DOMAIN ts |-> IF ts[i] = <<>> THEN <<"table">> ELSE ts[i]]

\* one registration: the map it is entered in, its key, and the hook import
Registration(map, key, name, arg_tys_) ==
  [map |-> map, key |-> key, name |-> name, arg_tys |-> arg_tys_]

\* PolymorphicHookMap::add: one hook per type vector of tys
PolymorphicHookMap_add(instr, non_poly_args, tys) ==
  [i \in DOMAIN tys |->
     Registration("polymorphic", [d |-> discriminant(instr), tys |-> tys[i]],
                  append_mangled_tys(to_instr_name(instr), tys[i]),
                  non_poly_args \o tys[i])]

\* PolymorphicHookMap::get_call: the call, or no hook (the pass panics)
has_hook(map, instr, tys) == MapHas(map, [d |-> discriminant(instr), tys |-> tys])
get_call(map, instr, tys) == Call(MapGet(map, [d |-> discriminant(instr), tys |-> tys]))

primitive_tys == <<<<I32>>, <<I64>>, <<F32>>, <<F64>>>>
select_tys == <<<<I32, I32>>, <<I64, I64>>, <<F32, F32>>, <<F64, F64>>>>

\* a faulty collection that keeps the parameter list of every function
unique_arg_tys_with_repeats(fs) == [i \in DOMAIN fs |-> fs[i].type_.params]

unique_arg_tys(fs) == SortDedup([i \in DOMAIN fs |-> fs[i].type_.params])
unique_result_tys(fs) == SortDedup([i \in DOMAIN fs |-> fs[i].type_.results])

\* add_hook_from_instr: the hook's arguments by instruction group
mono_arg_tys(info) ==
  CASE info.group = "Const" -> info.results
    [] info.group = "Unary" -> info.inputs \o info.results
    [] info.group = "Binary" -> info.inputs \o info.results
    [] info.group = "MemoryLoad" -> <<I32, I32, I32>> \o info.results
    [] info.group = "MemoryStore" -> <<I32, I32, I32, info.inputs[2]>>

add_hook_from_instr(info) ==
  Registration("monomorphic", info.name, info.name, mono_arg_tys(info))

\* the hooks add_hooks keeps in local variables, in the order of the code
CtlRegistrations ==
  << <<"if_", <<I32>>>>,
     <<"br", <<I32, I32>>>>,
     <<"br_if", <<I32, I32, I32>>>>,
     <<"br_table", <<I32, I32>>>>,
     <<"begin_function", <<>>>>,
     <<"end_function", <<>>>>,
     <<"begin_block", <<>>>>,
     <<"end_block", <<I32>>>>,
     <<"begin_loop", <<>>>>,
     <<"end_loop", <<I32>>>>,
     <<"begin_if", <<>>>>,
     <<"end_if", <<I32>>>>,
     <<"begin_else", <<>>>>,
     <<"end_else", <<I32>>>>,
     <<"nop", <<>>>>,
     <<"unreachable", <<>>>>,
     <<"current_memory", <<I32>>>>,
     <<"grow_memory", <<I32, I32>>>> >>

\* every hook add_hooks registers for a module with the functions fs, in the
\* order of the code
Registrations(fs) ==
  PolymorphicHookMap_add(Return, <<>>, unique_result_tys(fs))
  \o PolymorphicHookMap_add(GetLocal(0), <<I32>>, primitive_tys)
  \o PolymorphicHookMap_add(SetLocal(0), <<I32>>, primitive_tys)
  \o PolymorphicHookMap_add(TeeLocal(0), <<I32>>, primitive_tys)
  \o PolymorphicHookMap_add(GetGlobal(0), <<I32>>, primitive_tys)
  \o PolymorphicHookMap_add(SetGlobal(0), <<I32>>, primitive_tys)
  \o PolymorphicHookMap_add(Drop, <<>>, primitive_tys)
  \o PolymorphicHookMap_add(Select, <<I32>>, select_tys)
  \o PolymorphicHookMap_add(Call(0), <<I32>>, unique_arg_tys(fs))
  \o PolymorphicHookMap_add(CallIndirect(<<>>, <<>>), <<I32>>, unique_arg_tys(fs))
  \o [i \in DOMAIN unique_result_tys(fs) |->
        Registration("call_result", unique_result_tys(fs)[i],
                     append_mangled_tys("call_result", unique_result_tys(fs)[i]),
                     unique_result_tys(fs)[i])]
  \o [i \in DOMAIN CtlRegistrations |->
        Registration("ctl", CtlRegistrations[i][1], CtlRegistrations[i][1],
                     CtlRegistrations[i][2])]
  \o [i \in DOMAIN MonomorphicInstrs |-> add_hook_from_instr(MonomorphicInstrs[i])]

\* the imports the registrations regs append to the module
HookImports(regs) == [i \in DOMAIN regs |-> add_hook(regs[i].name, regs[i].arg_tys)]

\* the HashMap called map after the registrations regs, the first of them
\* getting function index base: a later insert replaces an earlier one with
\* the same key
HookMap(regs, map, base) ==
  LET live(i) == /\ regs[i].map = map
                 /\ \A j \in DOMAIN regs :
                      (j > i /\ regs[j].map = map) => regs[j].key # regs[i].key
      kept == SelectSeq([i \in DOMAIN regs |-> i], live)
  IN [k \in DOMAIN kept |-> [key |-> regs[kept[k]].key, idx |-> base + kept[k] - 1]]

-----------------------------------------------------------------------------
(* TypeStack: a stack of value types and block-begin markers *)

Val(ty) == [k |-> "val", ty |-> ty, bt |-> <<>>]
BlockBegin(bt) == [k |-> "begin", ty |-> "", bt |-> bt]

ts_push(s, ty) == Append(s, Val(ty))
\* pop() is fatal on an empty stack and on a marker
ts_can_pop(s) == s # <<>> /\ Last(s).k = "val"
ts_top(s) == Last(s).ty
ts_pop(s) == Front(s)

\* op(inputs, outputs): pop the inputs, asserting that they match, push the outputs
ts_can_op(s, inputs) ==
  /\ Len(s) >= Len(inputs)
  /\ \A i \in DOMAIN inputs :
       LET e == s[Len(s) - Len(inputs) + i] IN e.k = "val" /\ e.ty = inputs[i]
ts_op(s, inputs, outputs) ==
  DropN(s, Len(inputs)) \o [i \in DOMAIN outputs |-> Val(outputs[i])]

ts_begin_block(s, bt) == Append(s, BlockBegin(bt))

\* end_block(): pop until the matching marker, return its block type
ts_can_end_block(s) == \E i \in DOMAIN s : s[i].k = "begin"
ts_marker(s) == CHOOSE i \in DOMAIN s : s[i].k = "begin" /\ \A j \in DOMAIN s : j > i => s[j].k = "val"
ts_end_block_ty(s) == s[ts_marker(s)].bt
ts_end_block(s) == SubSeq(s, 1, ts_marker(s) - 1)

-----------------------------------------------------------------------------
(* Begin: the frames of the block stack *)

Begin(kind, iidx) == [kind |-> kind, iidx |-> iidx]
Begin_Function == Begin("Function", -1)

\* label_to_instr_idx: the label-th frame from the top; no such frame is fatal
can_resolve(begin_stack, label) == label < Len(begin_stack)
\* a faulty resolution that counts the frames from the bottom
label_to_instr_idx_from_bottom(begin_stack, label) ==
  LET target_block == begin_stack[label + 1]
  IN IF target_block.kind = "Function" THEN 0 ELSE target_block.iidx

label_to_instr_idx(begin_stack, label) ==
  LET target_block == begin_stack[Len(begin_stack) - label]
  IN IF target_block.kind = "Function" THEN 0 ELSE target_block.iidx

-----------------------------------------------------------------------------
(* Helpers of the rewrite *)

\* Function::add_fresh_local: the new local's index is the old number of locals
add_fresh_local(ls, ty) == Append(ls, ty)
\* a faulty allocation that hands out the newest existing local again
fresh_idx_reusing(ls) == IF ls = <<>> THEN 0 ELSE Len(ls) - 1
fresh_idx(ls) == Len(ls)
\* Function::add_fresh_locals: the indices of the locals appended for tys
fresh_idxs(ls, tys) == [i \in DOMAIN tys |-> Len(ls) + i - 1]

\* Function::local_type
local_type(ls, idx) == ls[idx + 1]

\* a faulty save_stack_to_locals that pops into the locals in reading order
save_stack_in_reading_order(ls) ==
  LET n == Len(ls)
  IN [i \in 1..(IF n = 0 THEN 0 ELSE n - 1) |-> SetLocal(ls[i + 1])]
     \o (IF n = 0 THEN <<>> ELSE <<TeeLocal(ls[1])>>)
     \o [i \in 1..(IF n = 0 THEN 0 ELSE n - 1) |-> GetLocal(ls[i + 1])]

\* save_stack_to_locals
save_stack_to_locals(ls) ==
  LET n == Len(ls)
  IN [i \in 1..(IF n = 0 THEN 0 ELSE n - 1) |-> SetLocal(ls[n + 1 - i])]
     \o (IF n = 0 THEN <<>> ELSE <<TeeLocal(ls[1])>>)
     \o [i \in 1..(IF n = 0 THEN 0 ELSE n - 1) |-> GetLocal(ls[i + 1])]

\* a faulty restore_locals_with_i64_handling that pushes the high half first
restore_locals_high_first(ls, local_tys) ==
  Flatten([i \in DOMAIN ls |->
             IF local_tys[i] = I64
             THEN <<GetLocal(ls[i]), I64Const(Shift32), I64ShrU, I32WrapI64,
                    GetLocal(ls[i]), I32WrapI64>>
             ELSE <<GetLocal(ls[i])>>])

\* restore_locals_with_i64_handling
restore_locals_with_i64_handling(ls, local_tys) ==
  Flatten([i \in DOMAIN ls |-> convert_i64_instr(GetLocal(ls[i]), local_tys[i])])

\* the hooks held in local variables
hook(name) == Call(MapGet(ctl_hooks, name))
\* monomorphic_hook_call: no hook for the instruction is fatal
has_monomorphic_hook(instr) == MapHas(monomorphic_hooks, discriminant(instr))
monomorphic_hook_call(instr) == Call(MapGet(monomorphic_hooks, discriminant(instr)))

\* what a handler leaves: the pass state and the instructions it appended;
\* panic names the failure when the handler panics: "no_hook" (no hook was
\* added), "type_stack" (an assertion of the type stack), "nesting" (invalid
\* begin/end nesting), "label" (cannot resolve target)
Done(bs, ts, ls, brt, out) ==
  [panic |-> "", block_stack |-> bs, type_stack |-> ts, locals |-> ls, br_tables |-> brt,
   out |-> out]
Panic(S, why) ==
  [panic |-> why, block_stack |-> S.block_stack, type_stack |-> S.type_stack,
   locals |-> S.locals, br_tables |-> S.br_tables, out |-> <<>>]

-----------------------------------------------------------------------------
(* The match arms of add_hooks.  S is the pass state before the            *)
(* instruction, iidx its index in the original body, loc the location      *)
(* constants.                                                              *)

\* a faulty arm that emits the hook call without the instruction
arm_NopUnreachable_without_instr(S, iidx, loc, instr) ==
  Done(S.block_stack, S.type_stack, S.locals, S.br_tables,
       <<loc[1], loc[2],
         IF instr.op = "nop" THEN hook("nop") ELSE hook("unreachable")>>)

arm_NopUnreachable(S, iidx, loc, instr) ==
  Done(S.block_stack, S.type_stack, S.locals, S.br_tables,
       <<instr, loc[1], loc[2],
         IF instr.op = "nop" THEN hook("nop") ELSE hook("unreachable")>>)

\* a faulty arm that pushes a block frame for a loop
arm_BlockLoop_pushing_block(S, iidx, loc, instr) ==
  Done(Append(S.block_stack, Begin("Block", iidx)),
       ts_begin_block(S.type_stack, instr.r), S.locals, S.br_tables,
       <<instr, loc[1], loc[2], hook("begin_block")>>)

arm_BlockLoop(S, iidx, loc, instr) ==
  Done(Append(S.block_stack,
              IF instr.op = "block" THEN Begin("Block", iidx) ELSE Begin("Loop", iidx)),
       ts_begin_block(S.type_stack, instr.r), S.locals, S.br_tables,
       <<instr, loc[1], loc[2], hook("begin_block")>>)

arm_If(S, iidx, loc, instr) ==
  LET condition_tmp == fresh_idx(S.locals)
  IN Done(Append(S.block_stack, Begin("If", iidx)),
          ts_begin_block(S.type_stack, instr.r),
          add_fresh_local(S.locals, I32), S.br_tables,
          <<TeeLocal(condition_tmp), loc[1], loc[2], GetLocal(condition_tmp), hook("if_"),
            instr,
            loc[1], loc[2], hook("begin_if")>>)

arm_Else(S, iidx, loc, instr) ==
  IF S.block_stack = <<>> THEN Panic(S, "nesting")
  ELSE LET begin == Last(S.block_stack) IN
    IF begin.kind # "If" THEN Panic(S, "nesting")
    ELSE IF ~ts_can_end_block(S.type_stack) THEN Panic(S, "type_stack")
    ELSE LET block_ty == ts_end_block_ty(S.type_stack) IN
      Done(Append(Front(S.block_stack), Begin("Else", iidx)),
           ts_begin_block(ts_end_block(S.type_stack), block_ty),
           S.locals, S.br_tables,
           <<loc[1], loc[2], I32Const(begin.iidx), hook("end_else"),
             instr,
             loc[1], loc[2], hook("begin_else")>>)

\* a faulty arm that closes every frame twice
arm_End_twice(S, iidx, loc, instr) ==
  IF S.block_stack = <<>> THEN Panic(S, "nesting")
  ELSE Done(Front(S.block_stack),
            IF Last(S.block_stack) # Begin_Function /\ ts_can_end_block(S.type_stack)
            THEN ts_end_block(S.type_stack) ELSE S.type_stack,
            S.locals, S.br_tables,
            <<loc[1], loc[2], hook("end_function"), instr, instr>>)

arm_End(S, iidx, loc, instr) ==
  IF S.block_stack = <<>> THEN Panic(S, "nesting")
  ELSE LET begin == Last(S.block_stack) IN
    IF begin # Begin_Function /\ ~ts_can_end_block(S.type_stack) THEN Panic(S, "type_stack")
    ELSE
      Done(Front(S.block_stack),
           IF begin # Begin_Function THEN ts_end_block(S.type_stack) ELSE S.type_stack,
           S.locals, S.br_tables,
           <<loc[1], loc[2]>>
           \o (CASE begin.kind = "Function" -> <<hook("end_function")>>
                 [] begin.kind = "Block" -> <<I32Const(begin.iidx), hook("end_block")>>
                 [] begin.kind = "Loop" -> <<I32Const(begin.iidx), hook("end_loop")>>
                 [] begin.kind = "If" -> <<I32Const(begin.iidx), hook("end_if")>>
                 [] begin.kind = "Else" -> <<I32Const(begin.iidx), hook("end_else")>>)
           \o <<instr>>)

arm_Drop(S, iidx, loc, instr) ==
  IF ~ts_can_pop(S.type_stack) THEN Panic(S, "type_stack")
  ELSE LET ty == ts_top(S.type_stack)
           tmp == fresh_idx(S.locals)
       IN IF ~has_hook(polymorphic_hooks, instr, <<ty>>) THEN Panic(S, "no_hook")
          ELSE Done(S.block_stack, ts_pop(S.type_stack), add_fresh_local(S.locals, ty),
                    S.br_tables,
                    <<SetLocal(tmp), loc[1], loc[2]>>
                    \o convert_i64_instr(GetLocal(tmp), ty)
                    \o <<get_call(polymorphic_hooks, instr, <<ty>>)>>)

arm_Select(S, iidx, loc, instr) ==
  LET s0 == S.type_stack IN
  IF ~(ts_can_pop(s0) /\ ts_top(s0) = I32) THEN Panic(S, "type_stack")
  ELSE LET s1 == ts_pop(s0) IN
    IF ~ts_can_pop(s1) THEN Panic(S, "type_stack")
    ELSE LET ty == ts_top(s1)
             s2 == ts_pop(s1) IN
      IF ~(ts_can_pop(s2) /\ ts_top(s2) = ty) THEN Panic(S, "type_stack")
      ELSE IF ~has_hook(polymorphic_hooks, instr, <<ty, ty>>) THEN Panic(S, "no_hook")
      ELSE LET condition_tmp == fresh_idx(S.locals)
               ls1 == add_fresh_local(S.locals, I32)
               arg_tmps == fresh_idxs(ls1, <<ty, ty>>)
               ls2 == ls1 \o <<ty, ty>>
           IN Done(S.block_stack, ts_push(ts_pop(s2), ty), ls2, S.br_tables,
                   save_stack_to_locals(<<arg_tmps[1], arg_tmps[2], condition_tmp>>)
                   \o <<instr, loc[1], loc[2], GetLocal(condition_tmp)>>
                   \o restore_locals_with_i64_handling(arg_tmps, <<ty, ty>>)
                   \o <<get_call(polymorphic_hooks, instr, <<ty, ty>>)>>)

arm_CurrentMemory(S, iidx, loc, instr) ==
  LET result_tmp == fresh_idx(S.locals)
  IN Done(S.block_stack, ts_op(S.type_stack, <<>>, <<I32>>),
          add_fresh_local(S.locals, I32), S.br_tables,
          <<instr, TeeLocal(result_tmp), loc[1], loc[2], GetLocal(result_tmp),
            hook("current_memory")>>)

arm_GrowMemory(S, iidx, loc, instr) ==
  IF ~ts_can_op(S.type_stack, <<I32>>) THEN Panic(S, "type_stack")
  ELSE LET input_tmp == fresh_idx(S.locals)
           result_tmp == input_tmp + 1
       IN Done(S.block_stack, ts_op(S.type_stack, <<I32>>, <<I32>>),
               S.locals \o <<I32, I32>>, S.br_tables,
               <<TeeLocal(input_tmp), instr, TeeLocal(result_tmp), loc[1], loc[2],
                 GetLocal(input_tmp), GetLocal(result_tmp), hook("grow_memory")>>)

\* a faulty arm that emits the instruction without its hook
arm_Local_without_hook(S, iidx, loc, instr) ==
  LET local_ty == local_type(S.locals, instr.n)
      inputs == IF instr.op = "set_local" THEN <<local_ty>> ELSE <<>>
      outputs == IF instr.op = "get_local" THEN <<local_ty>> ELSE <<>>
  IN Done(S.block_stack, ts_op(S.type_stack, inputs, outputs), S.locals, S.br_tables, <<instr>>)

arm_Local(S, iidx, loc, instr) ==
  LET local_idx == instr.n
      local_ty == local_type(S.locals, local_idx)
      inputs == IF instr.op = "set_local" THEN <<local_ty>> ELSE <<>>
      outputs == IF instr.op = "get_local" THEN <<local_ty>> ELSE <<>>
  IN IF ~ts_can_op(S.type_stack, inputs) THEN Panic(S, "type_stack")
     ELSE IF ~has_hook(polymorphic_hooks, instr, <<local_ty>>) THEN Panic(S, "no_hook")
     ELSE Done(S.block_stack, ts_op(S.type_stack, inputs, outputs), S.locals, S.br_tables,
               <<instr, loc[1], loc[2], I32Const(local_idx)>>
               \o convert_i64_instr(GetLocal(local_idx), local_ty)
               \o <<get_call(polymorphic_hooks, instr, <<local_ty>>)>>)

arm_Global(S, iidx, loc, instr) ==
  LET global_idx == instr.n
      global_ty == module_info.globals[global_idx + 1]
      inputs == IF instr.op = "set_global" THEN <<global_ty>> ELSE <<>>
      outputs == IF instr.op = "get_global" THEN <<global_ty>> ELSE <<>>
  IN IF ~ts_can_op(S.type_stack, inputs) THEN Panic(S, "type_stack")
     ELSE IF ~has_hook(polymorphic_hooks, instr, <<global_ty>>) THEN Panic(S, "no_hook")
     ELSE Done(S.block_stack, ts_op(S.type_stack, inputs, outputs), S.locals, S.br_tables,
               <<instr, loc[1], loc[2], I32Const(global_idx)>>
               \o convert_i64_instr(GetGlobal(global_idx), global_ty)
               \o <<get_call(polymorphic_hooks, instr, <<global_ty>>)>>)

arm_Return(S, iidx, loc, instr) ==
  LET result_tys == functions[fidx + 1].type_.results
      result_tmps == fresh_idxs(S.locals, result_tys)
  IN IF ~has_hook(polymorphic_hooks, instr, result_tys) THEN Panic(S, "no_hook")
     ELSE Done(S.block_stack, S.type_stack, S.locals \o result_tys, S.br_tables,
               save_stack_to_locals(result_tmps)
               \o <<loc[1], loc[2]>>
               \o restore_locals_with_i64_handling(result_tmps, result_tys)
               \o <<get_call(polymorphic_hooks, instr, result_tys), instr>>)

\* a faulty arm that calls the hook of return after the call
arm_Call_with_return_hook(S, iidx, loc, instr) ==
  LET target_func_idx == instr.n
      arg_tys == module_info.functions[target_func_idx + 1].type_.params
      result_tys == module_info.functions[target_func_idx + 1].type_.results
      arg_tmps == fresh_idxs(S.locals, arg_tys)
      result_tmps == fresh_idxs(S.locals \o arg_tys, result_tys)
  IN Done(S.block_stack, ts_op(S.type_stack, arg_tys, result_tys),
          S.locals \o arg_tys \o result_tys, S.br_tables,
          save_stack_to_locals(arg_tmps)
          \o <<loc[1], loc[2], I32Const(target_func_idx)>>
          \o restore_locals_with_i64_handling(arg_tmps, arg_tys)
          \o <<get_call(polymorphic_hooks, instr, arg_tys), instr>>
          \o save_stack_to_locals(result_tmps)
          \o <<loc[1], loc[2]>>
          \o restore_locals_with_i64_handling(result_tmps, result_tys)
          \o <<get_call(polymorphic_hooks, Return, result_tys)>>)

arm_Call(S, iidx, loc, instr) ==
  LET target_func_idx == instr.n
      arg_tys == module_info.functions[target_func_idx + 1].type_.params
      result_tys == module_info.functions[target_func_idx + 1].type_.results
      arg_tmps == fresh_idxs(S.locals, arg_tys)
      result_tmps == fresh_idxs(S.locals \o arg_tys, result_tys)
  IN IF ~ts_can_op(S.type_stack, arg_tys) THEN Panic(S, "type_stack")
     ELSE IF ~has_hook(polymorphic_hooks, instr, arg_tys) THEN Panic(S, "no_hook")
     ELSE IF ~MapHas(call_result_hooks, result_tys) THEN Panic(S, "no_hook")
     ELSE Done(S.block_stack, ts_op(S.type_stack, arg_tys, result_tys),
               S.locals \o arg_tys \o result_tys, S.br_tables,
               \* pre call hook
               save_stack_to_locals(arg_tmps)
               \o <<loc[1], loc[2], I32Const(target_func_idx)>>
               \o restore_locals_with_i64_handling(arg_tmps, arg_tys)
               \o <<get_call(polymorphic_hooks, instr, arg_tys), instr>>
               \* post call hook
               \o save_stack_to_locals(result_tmps)
               \o <<loc[1], loc[2]>>
               \o restore_locals_with_i64_handling(result_tmps, result_tys)
               \o <<Call(MapGet(call_result_hooks, result_tys))>>)

arm_CallIndirect(S, iidx, loc, instr) ==
  LET arg_tys == instr.p
      result_tys == instr.r
      target_table_idx_tmp == fresh_idx(S.locals)
      ls1 == add_fresh_local(S.locals, I32)
      arg_tmps == fresh_idxs(ls1, arg_tys)
      result_tmps == fresh_idxs(ls1 \o arg_tys, result_tys)
  IN IF ~ts_can_op(S.type_stack, arg_tys) THEN Panic(S, "type_stack")
     ELSE IF ~has_hook(polymorphic_hooks, instr, arg_tys) THEN Panic(S, "no_hook")
     ELSE IF ~MapHas(call_result_hooks, result_tys) THEN Panic(S, "no_hook")
     ELSE Done(S.block_stack, ts_op(S.type_stack, arg_tys, result_tys),
               ls1 \o arg_tys \o result_tys, S.br_tables,
               \* pre call hook
               <<SetLocal(target_table_idx_tmp)>>
               \o save_stack_to_locals(arg_tmps)
               \o <<GetLocal(target_table_idx_tmp), loc[1], loc[2],
                    GetLocal(target_table_idx_tmp)>>
               \o restore_locals_with_i64_handling(arg_tmps, arg_tys)
               \o <<get_call(polymorphic_hooks, instr, arg_tys), instr>>
               \* post call hook
               \o save_stack_to_locals(result_tmps)
               \o <<loc[1], loc[2]>>
               \o restore_locals_with_i64_handling(result_tmps, result_tys)
               \o <<Call(MapGet(call_result_hooks, result_tys))>>)

arm_Const(S, iidx, loc, instr) ==
  LET ty == group(instr).results[1]
  IN IF ~has_monomorphic_hook(instr) THEN Panic(S, "no_hook")
     ELSE Done(S.block_stack, ts_op(S.type_stack, <<>>, <<ty>>), S.locals, S.br_tables,
               <<loc[1], loc[2]>>
               \o convert_i64_instr(instr, ty)
               \o <<monomorphic_hook_call(instr), instr>>)

\* a faulty arm that pops the input into its local
arm_Unary_popping_input(S, iidx, loc, instr) ==
  LET input_ty == group(instr).inputs[1]
      result_ty == group(instr).results[1]
      input_tmp == fresh_idx(S.locals)
      result_tmp == input_tmp + 1
  IN IF ~ts_can_op(S.type_stack, <<input_ty>>) THEN Panic(S, "type_stack")
     ELSE Done(S.block_stack, ts_op(S.type_stack, <<input_ty>>, <<result_ty>>),
               S.locals \o <<input_ty, result_ty>>, S.br_tables,
               <<SetLocal(input_tmp), instr, TeeLocal(result_tmp), loc[1], loc[2]>>
               \o restore_locals_with_i64_handling(<<input_tmp, result_tmp>>,
                                                   <<input_ty, result_ty>>)
               \o <<monomorphic_hook_call(instr)>>)

arm_Unary(S, iidx, loc, instr) ==
  LET input_ty == group(instr).inputs[1]
      result_ty == group(instr).results[1]
      input_tmp == fresh_idx(S.locals)
      result_tmp == input_tmp + 1
  IN IF ~ts_can_op(S.type_stack, <<input_ty>>) THEN Panic(S, "type_stack")
     ELSE IF ~has_monomorphic_hook(instr) THEN Panic(S, "no_hook")
     ELSE Done(S.block_stack, ts_op(S.type_stack, <<input_ty>>, <<result_ty>>),
               S.locals \o <<input_ty, result_ty>>, S.br_tables,
               <<TeeLocal(input_tmp), instr, TeeLocal(result_tmp), loc[1], loc[2]>>
               \o restore_locals_with_i64_handling(<<input_tmp, result_tmp>>,
                                                   <<input_ty, result_ty>>)
               \o <<monomorphic_hook_call(instr)>>)

arm_Binary(S, iidx, loc, instr) ==
  LET first_ty == group(instr).inputs[1]
      second_ty == group(instr).inputs[2]
      result_ty == group(instr).results[1]
      first_tmp == fresh_idx(S.locals)
      second_tmp == first_tmp + 1
      result_tmp == first_tmp + 2
  IN IF ~ts_can_op(S.type_stack, <<first_ty, second_ty>>) THEN Panic(S, "type_stack")
     ELSE IF ~has_monomorphic_hook(instr) THEN Panic(S, "no_hook")
     ELSE Done(S.block_stack, ts_op(S.type_stack, <<first_ty, second_ty>>, <<result_ty>>),
               S.locals \o <<first_ty, second_ty, result_ty>>, S.br_tables,
               save_stack_to_locals(<<first_tmp, second_tmp>>)
               \o <<instr, TeeLocal(result_tmp), loc[1], loc[2]>>
               \o restore_locals_with_i64_handling(<<first_tmp, second_tmp, result_tmp>>,
                                                   <<first_ty, second_ty, result_ty>>)
               \o <<monomorphic_hook_call(instr)>>)

arm_MemoryLoad(S, iidx, loc, instr) ==
  LET ty == group(instr).results[1]
      addr_tmp == fresh_idx(S.locals)
      value_tmp == addr_tmp + 1
  IN IF ~ts_can_op(S.type_stack, <<I32>>) THEN Panic(S, "type_stack")
     ELSE IF ~has_monomorphic_hook(instr) THEN Panic(S, "no_hook")
     ELSE Done(S.block_stack, ts_op(S.type_stack, <<I32>>, <<ty>>),
               S.locals \o <<I32, ty>>, S.br_tables,
               <<TeeLocal(addr_tmp), instr, TeeLocal(value_tmp), loc[1], loc[2],
                 I32Const(instr.n), I32Const(instr.m)>>
               \o restore_locals_with_i64_handling(<<addr_tmp, value_tmp>>, <<I32, ty>>)
               \o <<monomorphic_hook_call(instr)>>)

arm_MemoryStore(S, iidx, loc, instr) ==
  LET ty == group(instr).inputs[2]
      addr_tmp == fresh_idx(S.locals)
      value_tmp == addr_tmp + 1
  IN IF ~ts_can_op(S.type_stack, <<I32, ty>>) THEN Panic(S, "type_stack")
     ELSE IF ~has_monomorphic_hook(instr) THEN Panic(S, "no_hook")
     ELSE Done(S.block_stack, ts_op(S.type_stack, <<I32, ty>>, <<>>),
               S.locals \o <<I32, ty>>, S.br_tables,
               save_stack_to_locals(<<addr_tmp, value_tmp>>)
               \o <<instr, loc[1], loc[2], I32Const(instr.n), I32Const(instr.m)>>
               \o restore_locals_with_i64_handling(<<addr_tmp, value_tmp>>, <<I32, ty>>)
               \o <<monomorphic_hook_call(instr)>>)

\* a faulty arm that calls the hook after the branch
arm_Br_hook_after(S, iidx, loc, instr) ==
  LET target_label == instr.n
  IN IF ~can_resolve(S.block_stack, target_label) THEN Panic(S, "label")
     ELSE Done(S.block_stack, S.type_stack, S.locals, S.br_tables,
               <<instr, loc[1], loc[2], I32Const(target_label),
                 I32Const(label_to_instr_idx(S.block_stack, target_label)),
                 hook("br")>>)

arm_Br(S, iidx, loc, instr) ==
  LET target_label == instr.n
  IN IF ~can_resolve(S.block_stack, target_label) THEN Panic(S, "label")
     ELSE Done(S.block_stack, S.type_stack, S.locals, S.br_tables,
               <<loc[1], loc[2], I32Const(target_label),
                 I32Const(label_to_instr_idx(S.block_stack, target_label)),
                 hook("br"), instr>>)

arm_BrIf(S, iidx, loc, instr) ==
  LET target_label == instr.n
      condition_tmp == fresh_idx(S.locals)
  IN IF ~ts_can_op(S.type_stack, <<I32>>) THEN Panic(S, "type_stack")
     ELSE IF ~can_resolve(S.block_stack, target_label) THEN Panic(S, "label")
     ELSE Done(S.block_stack, ts_op(S.type_stack, <<I32>>, <<>>),
               add_fresh_local(S.locals, I32), S.br_tables,
               <<TeeLocal(condition_tmp), loc[1], loc[2], I32Const(target_label),
                 I32Const(label_to_instr_idx(S.block_stack, target_label)),
                 GetLocal(condition_tmp), hook("br_if"), instr>>)

\* BrTableInfo::new(targets, default)
BrTableInfo(table, default) == [table |-> table, default |-> default]

\* a faulty arm that passes the number of records for the index
arm_BrTable_passing_length(S, iidx, loc, instr) ==
  LET br_tables == Append(S.br_tables, BrTableInfo(instr.t, instr.n))
      target_idx_tmp == fresh_idx(S.locals)
  IN Done(S.block_stack, ts_op(S.type_stack, <<I32>>, <<>>),
          add_fresh_local(S.locals, I32), br_tables,
          <<TeeLocal(target_idx_tmp), loc[1], loc[2], I32Const(Len(br_tables)),
            GetLocal(target_idx_tmp), hook("br_table"), instr>>)

arm_BrTable(S, iidx, loc, instr) ==
  LET br_tables == Append(S.br_tables, BrTableInfo(instr.t, instr.n))
      target_idx_tmp == fresh_idx(S.locals)
  IN IF ~ts_can_op(S.type_stack, <<I32>>) THEN Panic(S, "type_stack")
     ELSE Done(S.block_stack, ts_op(S.type_stack, <<I32>>, <<>>),
               add_fresh_local(S.locals, I32), br_tables,
               <<TeeLocal(target_idx_tmp), loc[1], loc[2], I32Const(Len(br_tables) - 1),
                 GetLocal(target_idx_tmp), hook("br_table"), instr>>)

-----------------------------------------------------------------------------
(* Validation of the input (WebAssembly MVP): a stack of control frames,   *)
(* each with the types of the operands pushed inside it; dead = the rest   *)
(* of the frame is unreachable.  Unreachable code is never offered, a      *)
(* dead frame is closed at once.                                           *)

Frame(kind, bt) == [kind |-> kind, bt |-> bt, opd |-> <<>>, dead |-> FALSE]

Alive(c) == c # <<>> /\ ~Last(c).dead
Opd(c) == Last(c).opd
HasTop(c, tys) == Alive(c) /\ Len(Opd(c)) >= Len(tys) /\ TopN(Opd(c), Len(tys)) = tys
\* pop the inputs, push the outputs
v_op(c, inputs, outputs) == [c EXCEPT ![Len(c)].opd = DropN(@, Len(inputs)) \o outputs]
v_kill(c) == [c EXCEPT ![Len(c)].opd = <<>>, ![Len(c)].dead = TRUE]
v_push(c, kind, bt) == Append(c, Frame(kind, bt))
\* the operand types a branch to label l carries
LabelTys(c, l) == LET f == c[Len(c) - l] IN IF f.kind = "loop" THEN <<>> ELSE f.bt
CanEnd(c) ==
  /\ c # <<>>
  /\ Last(c).dead \/ Last(c).opd = Last(c).bt
  /\ Last(c).kind = "if" => Last(c).bt = <<>>
v_end(c) ==
  IF Len(c) = 1 THEN <<>>
  ELSE [Front(c) EXCEPT ![Len(c) - 1].opd = @ \o Last(c).bt]
CanElse(c) ==
  /\ c # <<>>
  /\ Last(c).kind = "if"
  /\ Last(c).dead \/ Last(c).opd = Last(c).bt
v_else(c) == Append(Front(c), Frame("else", Last(c).bt))

-----------------------------------------------------------------------------
(* The inputs the model draws from *)

BlockTypes == {<<>>, <<I32>>}
BlockInstrs == {Block(<<I32>>), Loop(<<>>)}
\* the low 16-bit limb first
I64Values == {<<42, 0, 0, 0>>}
UnaryOps == {"i64.eqz"}
BinaryOps == {"i64.add"}
LoadOps == {"i64.load"}
StoreOps == {"i64.store"}
ConstInstrs == {I32Const(1)} \cup {I64Const(v) : v \in I64Values}
\* the function types call_indirect is drawn with
IndirectTypes == {FunctionType(<<I32>>, <<F64>>), FunctionType(<<>>, <<>>)}
BrTableTargets == {<<>>, <<0>>}

\* an imported function (i32) -> f64 and a function (i64) -> i64 with
\* code; one global of type f64
Module1 ==
  << Function(FunctionType(<<I32>>, <<F64>>), FALSE, <<>>, <<"env", "f">>),
     Function(FunctionType(<<I64>>, <<I64>>), TRUE, <<>>, <<>>) >>
Globals1 == <<F64>>

NoModuleInfo == [functions |-> <<>>, globals |-> <<>>, br_tables |-> <<>>]
NoPrev == [ctrl |-> <<>>, nlocals |-> 0, at |-> 0]

InitWith(ts, fs, gs, lim, pr) ==
  /\ pc = "start"
  /\ limit = lim
  /\ tables = ts
  /\ functions = fs
  /\ globals = gs
  /\ module_info = NoModuleInfo
  /\ polymorphic_hooks = <<>>
  /\ call_result_hooks = <<>>
  /\ monomorphic_hooks = <<>>
  /\ ctl_hooks = <<>>
  /\ fidx = 0
  /\ locals = <<>>
  /\ original_body = <<>>
  /\ instrumented_body = <<>>
  /\ block_stack = <<>>
  /\ type_stack = <<>>
  /\ ctrl = <<>>
  /\ prev = NoPrev
  /\ probe = pr

Init == InitWith(<< <<>> >>, Module1, Globals1, MaxBody, <<>>)

-----------------------------------------------------------------------------
(* add_hooks up to the loop over the functions *)

ExportTables ==
  /\ pc = "start"
  /\ tables' = export_tables(tables)
  /\ pc' = "hooks"
  /\ UNCHANGED <<functions, globals, module_info, hookvars, funvars, probe, limit>>

\* ModuleInfo::from(&module)
ModuleInfoFrom(fs, gs) == [functions |-> fs, globals |-> gs, br_tables |-> <<>>]

RegisterHooks ==
  /\ pc = "hooks"
  /\ LET regs == Registrations(functions)
         base == Len(functions)
     IN /\ module_info' = ModuleInfoFrom(functions, globals)
        /\ polymorphic_hooks' = HookMap(regs, "polymorphic", base)
        /\ call_result_hooks' = HookMap(regs, "call_result", base)
        /\ ctl_hooks' = HookMap(regs, "ctl", base)
        /\ monomorphic_hooks' = HookMap(regs, "monomorphic", base)
        /\ functions' = functions \o HookImports(regs)
  /\ pc' = "function"
  /\ UNCHANGED <<tables, globals, funvars, probe, limit>>

-----------------------------------------------------------------------------
(* The loop over the functions *)

\* a faulty loop that looks at the functions before index i again
WithCode_from_start(i) == {j \in 0..(Len(functions) - 1) : functions[j + 1].code}

\* the functions at or after index i that have code
WithCode(i) == {j \in i..(Len(functions) - 1) : functions[j + 1].code}

\* the next function with code: its body is moved out, the block stack holds
\* the function frame and the new body starts with the begin_function hook
BeginFunction ==
  /\ pc = "function"
  /\ WithCode(fidx) # {}
  /\ LET f == CHOOSE j \in WithCode(fidx) : \A k \in WithCode(fidx) : j <= k
         function == functions[f + 1]
     IN /\ fidx' = f
        /\ locals' = function.type_.params \o function.locals
        /\ ctrl' = <<Frame("function", function.type_.results)>>
        /\ instrumented_body' = <<I32Const(f), I32Const(-1), hook("begin_function")>>
  /\ original_body' = <<>>
  /\ block_stack' = <<Begin_Function>>
  /\ type_stack' = <<>>
  /\ prev' = NoPrev
  /\ pc' = "instr"
  /\ UNCHANGED <<modvars, hookvars, probe, limit>>

\* a faulty end of the function loop that omits the assertion on the block stack
EndBody_without_assert ==
  /\ pc = "end_body"
  /\ functions' = [functions EXCEPT ![fidx + 1].body = instrumented_body,
                                    ![fidx + 1].locals =
                                      SubSeq(locals, Len(functions[fidx + 1].type_.params) + 1, Len(locals))]
  /\ pc' = "function"
  /\ fidx' = fidx + 1
  /\ UNCHANGED <<tables, globals, module_info, hookvars, locals, original_body,
                 instrumented_body, block_stack, type_stack, ctrl, prev, probe, limit>>

\* the original body is exhausted: the new body is moved into the function;
\* frames left on the block stack are fatal
EndBody ==
  /\ pc = "end_body"
  /\ functions' = [functions EXCEPT ![fidx + 1].body = instrumented_body,
                                    ![fidx + 1].locals =
                                      SubSeq(locals, Len(functions[fidx + 1].type_.params) + 1, Len(locals))]
  /\ pc' = IF block_stack = <<>> THEN "function" ELSE "nesting"
  /\ fidx' = fidx + 1
  /\ UNCHANGED <<tables, globals, module_info, hookvars, locals, original_body,
                 instrumented_body, block_stack, type_stack, ctrl, prev, probe, limit>>

\* no function is left: js_codegen
Finish ==
  /\ pc = "function"
  /\ WithCode(fidx) = {}
  /\ pc' = "done"
  /\ UNCHANGED <<modvars, hookvars, funvars, probe, limit>>

-----------------------------------------------------------------------------
(* One iteration of the loop over the original body *)

iidx == Len(original_body)
\* a faulty location that takes the index in the new body
location_in_new_body == <<I32Const(fidx), I32Const(Len(instrumented_body))>>
location == <<I32Const(fidx), I32Const(iidx)>>
PassState ==
  [block_stack |-> block_stack, type_stack |-> type_stack, locals |-> locals,
   br_tables |-> module_info.br_tables]

\* the instruction instr is handled by an arm that leaves R; c is the
\* validation state after instr
Step(instr, R, c) ==
  /\ pc = "instr"
  /\ Len(original_body) < limit
  /\ \E r \in {R} :
       /\ pc' = IF r.panic # "" THEN r.panic ELSE IF c = <<>> THEN "end_body" ELSE "instr"
       /\ instrumented_body' = instrumented_body \o r.out
       /\ block_stack' = r.block_stack
       /\ type_stack' = r.type_stack
       /\ locals' = r.locals
       /\ module_info' = [module_info EXCEPT !.br_tables = r.br_tables]
  /\ original_body' = Append(original_body, instr)
  /\ prev' = [ctrl |-> ctrl, nlocals |-> Len(locals), at |-> Len(instrumented_body)]
  /\ ctrl' = c
  /\ UNCHANGED <<tables, functions, globals, hookvars, fidx, probe, limit>>

HandleNopUnreachable ==
  \E instr \in {Nop, Unreachable} :
    /\ Alive(ctrl)
    /\ Step(instr, arm_NopUnreachable(PassState, iidx, location, instr),
            IF instr = Nop THEN ctrl ELSE v_kill(ctrl))

HandleBlockLoop ==
  \E instr \in BlockInstrs :
    /\ Alive(ctrl)
    /\ Step(instr, arm_BlockLoop(PassState, iidx, location, instr),
            v_push(ctrl, instr.op, instr.r))

HandleIf ==
  \E bt \in BlockTypes :
    /\ HasTop(ctrl, <<I32>>)
    /\ Step(If(bt), arm_If(PassState, iidx, location, If(bt)),
            v_push(v_op(ctrl, <<I32>>, <<>>), "if", bt))

HandleElse ==
  /\ CanElse(ctrl)
  /\ Step(Else, arm_Else(PassState, iidx, location, Else), v_else(ctrl))

HandleEnd ==
  /\ CanEnd(ctrl)
  /\ Step(End, arm_End(PassState, iidx, location, End), v_end(ctrl))

HandleDrop ==
  /\ Alive(ctrl) /\ Len(Opd(ctrl)) >= 1
  /\ Step(Drop, arm_Drop(PassState, iidx, location, Drop),
          v_op(ctrl, <<Last(Opd(ctrl))>>, <<>>))

HandleSelect ==
  /\ HasTop(ctrl, <<I32>>) /\ Len(Opd(ctrl)) >= 3
  /\ LET o == Opd(ctrl) IN
       /\ o[Len(o) - 1] = o[Len(o) - 2]
       /\ Step(Select, arm_Select(PassState, iidx, location, Select),
               v_op(ctrl, <<o[Len(o) - 2], o[Len(o) - 1], I32>>, <<o[Len(o) - 1]>>))

HandleCurrentMemory ==
  /\ Alive(ctrl)
  /\ Step(CurrentMemory, arm_CurrentMemory(PassState, iidx, location, CurrentMemory),
          v_op(ctrl, <<>>, <<I32>>))

HandleGrowMemory ==
  /\ HasTop(ctrl, <<I32>>)
  /\ Step(GrowMemory, arm_GrowMemory(PassState, iidx, location, GrowMemory),
          v_op(ctrl, <<I32>>, <<I32>>))

\* the original locals of the function being instrumented
OriginalLocals == functions[fidx + 1].type_.params \o functions[fidx + 1].locals

HandleLocal ==
  \E x \in 0..(Len(OriginalLocals) - 1) : \E instr \in {GetLocal(x), SetLocal(x), TeeLocal(x)} :
    LET ty == OriginalLocals[x + 1]
        inputs == IF instr.op = "get_local" THEN <<>> ELSE <<ty>>
        outputs == IF instr.op = "set_local" THEN <<>> ELSE <<ty>>
    IN /\ HasTop(ctrl, inputs)
       /\ Step(instr, arm_Local(PassState, iidx, location, instr), v_op(ctrl, inputs, outputs))

HandleGlobal ==
  \E x \in 0..(Len(globals) - 1) : \E instr \in {GetGlobal(x), SetGlobal(x)} :
    LET ty == globals[x + 1]
        inputs == IF instr.op = "get_global" THEN <<>> ELSE <<ty>>
        outputs == IF instr.op = "set_global" THEN <<>> ELSE <<ty>>
    IN /\ HasTop(ctrl, inputs)
       /\ Step(instr, arm_Global(PassState, iidx, location, instr), v_op(ctrl, inputs, outputs))

HandleReturn ==
  /\ HasTop(ctrl, ctrl[1].bt)
  /\ Step(Return, arm_Return(PassState, iidx, location, Return), v_kill(ctrl))

HandleCall ==
  \E f \in 0..(Len(module_info.functions) - 1) :
    LET ty == module_info.functions[f + 1].type_
    IN /\ HasTop(ctrl, ty.params)
       /\ Step(Call(f), arm_Call(PassState, iidx, location, Call(f)),
               v_op(ctrl, ty.params, ty.results))

HandleCallIndirect ==
  \E ty \in IndirectTypes :
    LET instr == CallIndirect(ty.params, ty.results)
    IN /\ tables # <<>>
       /\ HasTop(ctrl, ty.params \o <<I32>>)
       /\ Step(instr, arm_CallIndirect(PassState, iidx, location, instr),
               v_op(ctrl, ty.params \o <<I32>>, ty.results))

HandleConst ==
  \E instr \in ConstInstrs :
    /\ Alive(ctrl)
    /\ Step(instr, arm_Const(PassState, iidx, location, instr),
            v_op(ctrl, <<>>, group(instr).results))

HandleUnary ==
  \E op \in UnaryOps :
    /\ HasTop(ctrl, group(Plain(op)).inputs)
    /\ Step(Plain(op), arm_Unary(PassState, iidx, location, Plain(op)),
            v_op(ctrl, group(Plain(op)).inputs, group(Plain(op)).results))

HandleBinary ==
  \E op \in BinaryOps :
    /\ HasTop(ctrl, group(Plain(op)).inputs)
    /\ Step(Plain(op), arm_Binary(PassState, iidx, location, Plain(op)),
            v_op(ctrl, group(Plain(op)).inputs, group(Plain(op)).results))

HandleMemoryLoad ==
  \E op \in LoadOps :
    LET instr == Mem(op, 8, 3)
    IN /\ HasTop(ctrl, <<I32>>)
       /\ Step(instr, arm_MemoryLoad(PassState, iidx, location, instr),
               v_op(ctrl, <<I32>>, group(instr).results))

HandleMemoryStore ==
  \E op \in StoreOps :
    LET instr == Mem(op, 8, 3)
    IN /\ HasTop(ctrl, group(instr).inputs)
       /\ Step(instr, arm_MemoryStore(PassState, iidx, location, instr),
               v_op(ctrl, group(instr).inputs, <<>>))

HandleBr ==
  \E l \in 0..(Len(ctrl) - 1) :
    /\ HasTop(ctrl, LabelTys(ctrl, l))
    /\ Step(Br(l), arm_Br(PassState, iidx, location, Br(l)), v_kill(ctrl))

HandleBrIf ==
  \E l \in 0..(Len(ctrl) - 1) :
    /\ HasTop(ctrl, LabelTys(ctrl, l) \o <<I32>>)
    /\ Step(BrIf(l), arm_BrIf(PassState, iidx, location, BrIf(l)),
            v_op(ctrl, <<I32>>, <<>>))

HandleBrTable ==
  \E l \in 0..(Len(ctrl) - 1), targets \in BrTableTargets :
    /\ HasTop(ctrl, LabelTys(ctrl, l) \o <<I32>>)
    /\ \A i \in DOMAIN targets :
         targets[i] < Len(ctrl) /\ LabelTys(ctrl, targets[i]) = LabelTys(ctrl, l)
    /\ Step(BrTable(targets, l), arm_BrTable(PassState, iidx, location, BrTable(targets, l)),
            v_kill(ctrl))

Handle ==
  \/ HandleNopUnreachable
  \/ HandleBlockLoop
  \/ HandleIf
  \/ HandleElse
  \/ HandleEnd
  \/ HandleDrop
  \/ HandleSelect
  \/ HandleCurrentMemory
  \/ HandleGrowMemory
  \/ HandleLocal
  \/ HandleGlobal
  \/ HandleReturn
  \/ HandleCall
  \/ HandleCallIndirect
  \/ HandleConst
  \/ HandleUnary
  \/ HandleBinary
  \/ HandleMemoryLoad
  \/ HandleMemoryStore
  \/ HandleBr
  \/ HandleBrIf
  \/ HandleBrTable

Next ==
  \/ ExportTables
  \/ RegisterHooks
  \/ BeginFunction
  \/ Handle
  \/ EndBody
  \/ Finish

Spec == Init /\ [][Next]_vars

-----------------------------------------------------------------------------
(* A stack machine that runs emitted instruction sequences.  A value is    *)
(* its type and its bits, four 16-bit limbs with the lowest first.  Locals *)
(* and globals are read and written, constants and the two instructions of *)
(* the i64 split are computed, a call of a hook pops the hook's parameters *)
(* and pushes nothing; every other instruction pops its inputs, pushes     *)
(* results fixed by its inputs, and is logged with the stack it found.     *)

Limb == 2 ^ 16
Value(ty, v) == [ty |-> ty, v |-> v]
\* the bits of the 32-bit constant n (two's complement)
Limbs32(n) == <<n % Limb, (n \div Limb) % Limb, 0, 0>>
\* whether the type is 64 bits wide
Wide(ty) == ty \in {I64, F64}
\* an arbitrary value of type ty, told apart by k
ValueAt(ty, k) ==
  Value(ty, IF Wide(ty) THEN <<k, k + 1, k + 2, k + 3>> ELSE <<k, k + 1, 0, 0>>)
\* the result of type ty an instruction of the input computes from inputs
Produced(ty, inputs) ==
  ValueAt(ty, (7 + (IF inputs = <<>> THEN 0 ELSE 3 * inputs[1].v[1] + Last(inputs).v[1]))
              % (Limb - 3))

\* i32.wrap/i64: the low 32 bits
Wrap(v) == <<v[1], v[2], 0, 0>>
\* i64.shr_u: a shifted right by b mod 64 bits, zeros shifted in
ShrU(a, b) ==
  LET s == b[1] % 64
      k == s \div 16
      r == s % 16
      limb(i) == IF i > 4 THEN 0 ELSE a[i]
  IN [i \in 1..4 |->
        ((limb(i + k) \div (2 ^ r)) + (limb(i + k + 1) % (2 ^ r)) * (2 ^ (16 - r))) % Limb]

\* the machine before a run
Machine(stack, ls, gs) ==
  [stack |-> stack, locals |-> ls, globals |-> gs, log |-> <<>>, hooks |-> <<>>,
   typed |-> TRUE, ok |-> TRUE]

\* what a run needs of the module: its functions, the index of the first
\* hook, the declared types of the function's locals
Context(fs, base, local_tys) == [functions |-> fs, base |-> base, local_tys |-> local_tys]

\* one instruction.  ok turns FALSE when the stack or a local is missing,
\* typed turns FALSE when a value has not the type the instruction expects.
StepM(cx, instr, m) ==
  LET op == instr.op
      top == Last(m.stack)
      need(n) == Len(m.stack) >= n
      fail == [m EXCEPT !.ok = FALSE]
      \* an instruction of the input: pop n values, push outs
      input(n, outs) ==
        IF ~need(n) THEN fail
        ELSE [m EXCEPT !.stack = DropN(@, n) \o outs,
                       !.log = Append(@, [instr |-> instr, stack |-> m.stack])]
      results(tys, n) == [i \in DOMAIN tys |-> Produced(tys[i], TopN(m.stack, n))]
  IN
  IF ~m.ok THEN m
  ELSE IF op = "call" /\ instr.n >= cx.base THEN
    IF instr.n >= Len(cx.functions) THEN fail
    ELSE LET params == cx.functions[instr.n + 1].type_.params
             n == Len(params)
             args == TopN(m.stack, n)
         IN IF ~need(n) THEN fail
            ELSE [m EXCEPT !.stack = DropN(@, n),
                           !.hooks = Append(@, [name |-> cx.functions[instr.n + 1].import[2],
                                                args |-> args]),
                           !.typed = @ /\ \A i \in 1..n : args[i].ty = params[i]]
  ELSE IF op = "call" THEN
    LET ty == cx.functions[instr.n + 1].type_
    IN input(Len(ty.params), results(ty.results, Len(ty.params)))
  ELSE IF op = "call_indirect" THEN
    input(Len(instr.p) + 1, results(instr.r, Len(instr.p) + 1))
  ELSE IF op = "get_local" THEN
    IF instr.n >= Len(m.locals) THEN fail
    ELSE [m EXCEPT !.stack = Append(@, m.locals[instr.n + 1])]
  ELSE IF op \in {"set_local", "tee_local"} THEN
    IF ~need(1) \/ instr.n >= Len(m.locals) THEN fail
    ELSE [m EXCEPT !.stack = IF op = "set_local" THEN Front(@) ELSE @,
                   !.locals[instr.n + 1] = top,
                   !.typed = @ /\ top.ty = cx.local_tys[instr.n + 1]]
  ELSE IF op = "get_global" THEN
    IF instr.n >= Len(m.globals) THEN fail
    ELSE [m EXCEPT !.stack = Append(@, m.globals[instr.n + 1])]
  ELSE IF op = "set_global" THEN
    IF ~need(1) \/ instr.n >= Len(m.globals) THEN fail
    ELSE [m EXCEPT !.stack = Front(@), !.globals[instr.n + 1] = top]
  ELSE IF op \in {"i32.const", "f32.const", "f64.const"} THEN
    [m EXCEPT !.stack = Append(@, Value(group(instr).results[1], Limbs32(instr.n)))]
  ELSE IF op = "i64.const" THEN
    [m EXCEPT !.stack = Append(@, Value(I64, instr.t))]
  ELSE IF op = "i32.wrap/i64" THEN
    IF ~need(1) THEN fail
    ELSE [m EXCEPT !.stack = Append(Front(@), Value(I32, Wrap(top.v))),
                   !.typed = @ /\ top.ty = I64]
  ELSE IF op = "i64.shr_u" THEN
    IF ~need(2) THEN fail
    ELSE LET a == m.stack[Len(m.stack) - 1]
         IN [m EXCEPT !.stack = Append(DropN(@, 2), Value(I64, ShrU(a.v, top.v))),
                      !.typed = @ /\ a.ty = I64 /\ top.ty = I64]
  ELSE IF op = "drop" THEN input(1, <<>>)
  ELSE IF op = "select" THEN
    IF ~need(3) THEN fail
    ELSE LET s == m.stack
         IN input(3, <<IF top.v # <<0, 0, 0, 0>> THEN s[Len(s) - 2] ELSE s[Len(s) - 1]>>)
  ELSE IF op \in {"if", "br_if", "br_table"} THEN input(1, <<>>)
  ELSE IF op = "current_memory" THEN input(0, results(<<I32>>, 0))
  ELSE IF op = "grow_memory" THEN input(1, results(<<I32>>, 1))
  ELSE IF group(instr).group # "Other" THEN
    input(Len(group(instr).inputs), results(group(instr).results, Len(group(instr).inputs)))
  ELSE input(0, <<>>)

RECURSIVE Exec(_, _, _, _)
Exec(cx, code, i, m) ==
  IF i > Len(code) THEN m ELSE Exec(cx, code, i + 1, StepM(cx, code[i], m))

\* the machine after code has run from m
Run(cx, code, m) == Exec(cx, code, 1, m)

\* the operand stack the validator holds: the operands of every open frame
OperandTypes(c) == Flatten([i \in DOMAIN c |-> c[i].opd])

\* a machine with arbitrary values of the given types on the stack, in the
\* locals and in the globals
MachineAt(stack_tys, local_tys, global_tys) ==
  Machine([k \in DOMAIN stack_tys |-> ValueAt(stack_tys[k], 16 * k)],
          [j \in DOMAIN local_tys |-> ValueAt(local_tys[j], 1000 + 16 * j)],
          [g \in DOMAIN global_tys |-> ValueAt(global_tys[g], 2000 + 16 * g)])

-----------------------------------------------------------------------------
(* The last instruction handled and what was emitted for it *)

\* an instruction has been handled and the pass goes on
Handled == pc \in {"instr", "end_body"} /\ original_body # <<>>
LastInstr == Last(original_body)
LastSegment == SubSeq(instrumented_body, prev.at + 1, Len(instrumented_body))
PassContext == Context(functions, Len(module_info.functions), locals)
\* the machine where the last instruction was met
Before == MachineAt(OperandTypes(prev.ctrl), locals, globals)
\* after the emitted rewrite has run, and after the original instruction alone
After == Run(PassContext, LastSegment, Before)
Alone == Run(PassContext, <<LastInstr>>, Before)
\* the new body run from the entry of the function
WholeRun == Run(PassContext, instrumented_body, MachineAt(<<>>, locals, globals))

-----------------------------------------------------------------------------
(* The pass on bodies of constants, locals, globals, calls, br_if,         *)
(* if/else/end, drop and select                                            *)

InitPoly == InitWith(<< <<>> >>, Module1, Globals1, MaxPolyBody, <<>>)

NextPoly ==
  \/ ExportTables
  \/ RegisterHooks
  \/ BeginFunction
  \/ HandleIf
  \/ HandleElse
  \/ HandleEnd
  \/ HandleDrop
  \/ HandleSelect
  \/ HandleLocal
  \/ HandleGlobal
  \/ HandleCall
  \/ HandleConst
  \/ HandleBrIf
  \/ EndBody
  \/ Finish

SpecPoly == InitPoly /\ [][NextPoly]_vars

-----------------------------------------------------------------------------
(* add_hooks up to the loop over the functions, on modules with any tables *)
(* and functions                                                           *)

\* the export of a table: none, or a name
TableExports == {<<>>, <<"tbl">>}
TableLists == UNION {[1..n -> TableExports] : n \in 0..MaxTables}
ModuleTypes ==
  {FunctionType(<<>>, <<>>), FunctionType(<<I64>>, <<I64>>), FunctionType(<<I32, I64>>, <<F64>>)}
Modules ==
  {<<Function(t, TRUE, <<>>, <<>>)>> : t \in ModuleTypes}
  \cup {<<Function(t, FALSE, <<>>, <<"env", "f">>), Function(u, TRUE, <<>>, <<>>)>> :
          t \in ModuleTypes, u \in ModuleTypes}

\* probe keeps the tables of the input
InitModule ==
  \E ts \in TableLists, fs \in Modules : InitWith(ts, fs, Globals1, 0, [tables |-> ts])

NextModule ==
  \/ ExportTables
  \/ RegisterHooks

SpecModule == InitModule /\ [][NextModule]_vars

-----------------------------------------------------------------------------
(* save_stack_to_locals on its own: probe holds the locals handed to it,   *)
(* the machine before, the instructions it returns and the machine after   *)

\* the lists of distinct locals among the first MaxSaved
LocalLists ==
  {ls \in UNION {[1..n -> 0..(MaxSaved - 1)] : n \in 0..MaxSaved} :
     \A i, j \in DOMAIN ls : i # j => ls[i] # ls[j]}

\* no module, no function
Idle ==
  /\ tables = <<>>
  /\ functions = <<>>
  /\ globals = <<>>
  /\ module_info = NoModuleInfo
  /\ polymorphic_hooks = <<>>
  /\ call_result_hooks = <<>>
  /\ monomorphic_hooks = <<>>
  /\ ctl_hooks = <<>>
  /\ fidx = 0
  /\ locals = <<>>
  /\ original_body = <<>>
  /\ instrumented_body = <<>>
  /\ block_stack = <<>>
  /\ type_stack = <<>>
  /\ ctrl = <<>>
  /\ prev = NoPrev
  /\ limit = 0

InitSave ==
  /\ pc = "probe"
  /\ Idle
  /\ \E ls \in LocalLists, ty \in {I32, I64}, h \in 0..(MaxSaved + 1) :
       /\ h >= Len(ls)
       /\ LET m == MachineAt([k \in 1..h |-> ty], [j \in 1..MaxSaved |-> ty], <<>>)
          IN probe = [locals |-> ls, ty |-> ty, before |-> m, code |-> <<>>, after |-> m]

ProbeSave ==
  /\ pc = "probe"
  /\ pc' = "probed"
  /\ LET code == save_stack_to_locals(probe.locals)
         cx == Context(<<>>, 0, [j \in 1..MaxSaved |-> probe.ty])
     IN probe' = [probe EXCEPT !.code = code, !.after = Run(cx, code, probe.before)]
  /\ UNCHANGED <<modvars, hookvars, funvars, limit>>

NextSave == ProbeSave

SpecSave == InitSave /\ [][NextSave]_vars

-----------------------------------------------------------------------------
(* The split of an i64 on its own, and in the body i64.const v; return of  *)
(* a function that returns an i64: probe holds v                           *)

LimbValues == {0, 42, Limb - 1}
I64Probes == {<<a, b, c, d>> : a \in LimbValues, b \in LimbValues, c \in LimbValues, d \in LimbValues}

InitSplit ==
  \E v \in I64Probes :
    InitWith(<< <<>> >>, Module1, Globals1, 2, [v |-> v, code |-> <<>>, stack |-> <<>>])

\* restore_locals_with_i64_handling for one local of type i64 that holds v
ProbeSplit ==
  /\ pc = "function"
  /\ fidx = 0
  /\ pc' = "probed"
  /\ LET code == restore_locals_with_i64_handling(<<0>>, <<I64>>)
         m == Machine(<<>>, <<Value(I64, probe.v)>>, <<>>)
     IN probe' = [probe EXCEPT !.code = code,
                               !.stack = Run(Context(<<>>, 0, <<I64>>), code, m).stack]
  /\ UNCHANGED <<modvars, hookvars, funvars, limit>>

\* the body starts with i64.const v
HandleProbeConst ==
  /\ original_body = <<>>
  /\ Step(I64Const(probe.v), arm_Const(PassState, iidx, location, I64Const(probe.v)),
          v_op(ctrl, <<>>, <<I64>>))

NextSplit ==
  \/ ExportTables
  \/ RegisterHooks
  \/ BeginFunction
  \/ ProbeSplit
  \/ HandleProbeConst
  \/ HandleReturn

SpecSplit == InitSplit /\ [][NextSplit]_vars

-----------------------------------------------------------------------------
(* The match over the instruction, for a body that is given                *)

\* match (instr.group(), instr.clone()): the arm that handles instr
arm(S, i, loc, instr) ==
  LET op == instr.op
      g == group(instr).group
  IN CASE op \in {"nop", "unreachable"} -> arm_NopUnreachable(S, i, loc, instr)
       [] op \in {"block", "loop"} -> arm_BlockLoop(S, i, loc, instr)
       [] op = "if" -> arm_If(S, i, loc, instr)
       [] op = "else" -> arm_Else(S, i, loc, instr)
       [] op = "end" -> arm_End(S, i, loc, instr)
       [] op = "drop" -> arm_Drop(S, i, loc, instr)
       [] op = "select" -> arm_Select(S, i, loc, instr)
       [] op = "current_memory" -> arm_CurrentMemory(S, i, loc, instr)
       [] op = "grow_memory" -> arm_GrowMemory(S, i, loc, instr)
       [] op \in {"get_local", "set_local", "tee_local"} -> arm_Local(S, i, loc, instr)
       [] op \in {"get_global", "set_global"} -> arm_Global(S, i, loc, instr)
       [] op = "return" -> arm_Return(S, i, loc, instr)
       [] op = "call" -> arm_Call(S, i, loc, instr)
       [] op = "call_indirect" -> arm_CallIndirect(S, i, loc, instr)
       [] g = "Const" -> arm_Const(S, i, loc, instr)
       [] g = "Unary" -> arm_Unary(S, i, loc, instr)
       [] g = "Binary" -> arm_Binary(S, i, loc, instr)
       [] g = "MemoryLoad" -> arm_MemoryLoad(S, i, loc, instr)
       [] g = "MemoryStore" -> arm_MemoryStore(S, i, loc, instr)
       [] op = "br" -> arm_Br(S, i, loc, instr)
       [] op = "br_if" -> arm_BrIf(S, i, loc, instr)
       [] op = "br_table" -> arm_BrTable(S, i, loc, instr)

\* the operand types instr pops and pushes on the validation state c
InstrType(c, instr) ==
  LET op == instr.op
      o == Opd(c)
      ty(ins, outs) == [inputs |-> ins, outputs |-> outs]
  IN CASE op = "get_local" -> ty(<<>>, <<OriginalLocals[instr.n + 1]>>)
       [] op = "set_local" -> ty(<<OriginalLocals[instr.n + 1]>>, <<>>)
       [] op = "tee_local" -> ty(<<OriginalLocals[instr.n + 1]>>, <<OriginalLocals[instr.n + 1]>>)
       [] op = "get_global" -> ty(<<>>, <<globals[instr.n + 1]>>)
       [] op = "set_global" -> ty(<<globals[instr.n + 1]>>, <<>>)
       [] op = "call" -> ty(module_info.functions[instr.n + 1].type_.params,
                            module_info.functions[instr.n + 1].type_.results)
       [] op = "call_indirect" -> ty(instr.p \o <<I32>>, instr.r)
       [] op = "drop" -> ty(TopN(o, Min(1, Len(o))), <<>>)
       [] op = "select" ->
            IF Len(o) >= 3 /\ o[Len(o) - 1] = o[Len(o) - 2]
            THEN ty(TopN(o, 3), <<o[Len(o) - 1]>>)
            ELSE ty(<<I32, I32, I32, I32>> \o o, <<>>)
       [] op = "current_memory" -> ty(<<>>, <<I32>>)
       [] op = "grow_memory" -> ty(<<I32>>, <<I32>>)
       [] op \in {"if", "br_if", "br_table"} -> ty(<<I32>>, <<>>)
       [] group(instr).group # "Other" -> ty(group(instr).inputs, group(instr).results)
       [] OTHER -> ty(<<>>, <<>>)

\* instr is valid on c
v_can(c, instr) ==
  LET op == instr.op
  IN CASE op = "end" -> CanEnd(c)
       [] op = "else" -> CanElse(c)
       [] op = "br" -> instr.n < Len(c) /\ HasTop(c, LabelTys(c, instr.n))
       [] op = "br_if" -> instr.n < Len(c) /\ HasTop(c, LabelTys(c, instr.n) \o <<I32>>)
       [] op = "br_table" ->
            /\ instr.n < Len(c)
            /\ HasTop(c, LabelTys(c, instr.n) \o <<I32>>)
            /\ \A k \in DOMAIN instr.t :
                 instr.t[k] < Len(c) /\ LabelTys(c, instr.t[k]) = LabelTys(c, instr.n)
       [] op = "return" -> HasTop(c, c[1].bt)
       [] op = "drop" -> Alive(c) /\ Len(Opd(c)) >= 1
       [] OTHER -> HasTop(c, InstrType(c, instr).inputs)

\* the validation state after instr
v_instr(c, instr) ==
  LET op == instr.op
  IN CASE op \in {"block", "loop"} -> v_push(c, op, instr.r)
       [] op = "if" -> v_push(v_op(c, <<I32>>, <<>>), "if", instr.r)
       [] op = "else" -> v_else(c)
       [] op = "end" -> v_end(c)
       [] op \in {"br", "br_table", "return", "unreachable"} -> v_kill(c)
       [] OTHER -> v_op(c, InstrType(c, instr).inputs, InstrType(c, instr).outputs)

-----------------------------------------------------------------------------
(* The pass on the modules of the scenarios: probe.bodies holds, per        *)
(* function, the body to instrument                                        *)

\* k imported functions () -> () ahead of the functions of the scenario
Pad(k) == [i \in 1..k |-> Function(FunctionType(<<>>, <<>>), FALSE, <<>>, <<"env", "f">>)]
NoBodies(k) == [i \in 1..k |-> <<>>]
\* the most imported functions ahead
MaxPad == 2
Pads == 0..MaxPad

WithBody(type_) == Function(type_, TRUE, <<>>, <<>>)

\* the bodies of the scenarios
BodyEnd == <<End>>
BodyAdd == <<GetLocal(0), GetLocal(1), Plain("i32.add"), End>>
BodyReturn == <<I64Const(<<42, 0, 0, 0>>), Return, End>>
BodyIfElse == <<I32Const(1), If(<<I32>>), I32Const(2), Else, I32Const(3), End, End>>
BodyIf == <<Block(<<>>), I32Const(0), If(<<>>), Nop, End, End, End>>
BodyBrTable ==
  <<Loop(<<>>), Block(<<>>), Block(<<>>), I32Const(0), BrTable(<<0, 1>>, 2), End, End, End, End>>
\* function k is (i32, i64) -> (f64), function k + 1 the function itself
BodyCall(k) == <<I32Const(1), I64Const(<<42, 0, 0, 0>>), Call(k), Drop, Call(k + 1), End>>
BodyTable1 == <<I32Const(0), BrTable(<<>>, 0), End>>
BodyTable2 == <<Block(<<>>), I32Const(1), BrTable(<<0, 1>>, 0), End, End>>

\* a body of the instructions the other scenarios leave out; local 0 is an
\* i32, local 1 an i64, global 0 an f64
BodyMix ==
  <<Block(<<>>), GetLocal(0), BrIf(0), Br(0), End,
    GetGlobal(0), SetGlobal(0),
    I32Const(0), Mem("i64.load", 0, 3), TeeLocal(1), Plain("i64.eqz"), SetLocal(0),
    I32Const(0), GetLocal(1), Mem("i64.store", 8, 3),
    I32Const(1), I32Const(2), I32Const(0), Select, Drop,
    CurrentMemory, GrowMemory, Drop,
    I32Const(0), CallIndirect(<<>>, <<>>), Unreachable, End>>

\* the scenario modules, shifted by k functions
Scenario(fs, bodies) == [functions |-> fs, bodies |-> bodies]
Scenarios(k) ==
  { \* a function whose body is only end
    Scenario(Pad(k) \o <<WithBody(FunctionType(<<>>, <<>>))>>, NoBodies(k) \o <<BodyEnd>>),
    \* (i32 i32) -> i32: get_local 0; get_local 1; i32.add; end
    Scenario(Pad(k) \o <<WithBody(FunctionType(<<I32, I32>>, <<I32>>))>>,
             NoBodies(k) \o <<BodyAdd>>),
    \* () -> i64: i64.const 42; return; end
    Scenario(Pad(k) \o <<WithBody(FunctionType(<<>>, <<I64>>))>>, NoBodies(k) \o <<BodyReturn>>),
    \* () -> i32: if (result i32) ... else ... end
    Scenario(Pad(k) \o <<WithBody(FunctionType(<<>>, <<I32>>))>>, NoBodies(k) \o <<BodyIfElse>>),
    \* an if without else, inside a block
    Scenario(Pad(k) \o <<WithBody(FunctionType(<<>>, <<>>))>>, NoBodies(k) \o <<BodyIf>>),
    \* br_table [0 1] 2 inside two blocks inside a loop
    Scenario(Pad(k) \o <<WithBody(FunctionType(<<>>, <<>>))>>, NoBodies(k) \o <<BodyBrTable>>),
    \* a call of a function (i32, i64) -> (f64)
    Scenario(Pad(k) \o <<Function(FunctionType(<<I32, I64>>, <<F64>>), FALSE, <<>>, <<"env", "g">>),
                         WithBody(FunctionType(<<>>, <<>>))>>,
             NoBodies(k + 1) \o <<BodyCall(k)>>),
    \* a function with locals (i32, i64) and the mixed body
    Scenario(Pad(k) \o <<Function(FunctionType(<<>>, <<>>), TRUE, <<I32, I64>>, <<>>)>>,
             NoBodies(k) \o <<BodyMix>>),
    \* two functions with a br_table each
    Scenario(Pad(k) \o <<WithBody(FunctionType(<<>>, <<>>)), WithBody(FunctionType(<<>>, <<>>))>>,
             NoBodies(k) \o <<BodyTable1, BodyTable2>>) }

InitScenario ==
  \E k \in Pads : \E s \in Scenarios(k) :
    InitWith(<< <<>> >>, s.functions, Globals1, Len(Flatten(s.bodies)), [bodies |-> s.bodies])

\* the next instruction of the body of the function
HandleGiven ==
  /\ pc = "instr"
  /\ iidx < Len(probe.bodies[fidx + 1])
  /\ LET instr == probe.bodies[fidx + 1][iidx + 1]
     IN /\ v_can(ctrl, instr)
        /\ Step(instr, arm(PassState, iidx, location, instr), v_instr(ctrl, instr))

NextScenario ==
  \/ ExportTables
  \/ RegisterHooks
  \/ BeginFunction
  \/ HandleGiven
  \/ EndBody
  \/ Finish

SpecScenario == InitScenario /\ [][NextScenario]_vars

-----------------------------------------------------------------------------
(* js_codegen: the properties of Wasabi.module.lowlevelHooks, each with    *)
(* its name and the names of its parameters                                *)

JsHook(name, params) == [name |-> name, params |-> params]

\* js_codegen::arg: the parameters that take a value of type ty
arg(name, ty) == IF ty = I64 THEN <<name \o "_low", name \o "_high">> ELSE <<name>>

\* the forwarders written out in js_codegen
StaticJsHooks ==
  << JsHook("start", <<"func", "instr">>),
     JsHook("nop", <<"func", "instr">>),
     JsHook("unreachable", <<"func", "instr">>),
     JsHook("memory_size", <<"func", "instr", "currentSizePages">>),
     JsHook("memory_grow", <<"func", "instr", "byPages", "previousSizePages">>),
     JsHook("begin_function", <<"func", "instr">>),
     JsHook("end_function", <<"func", "instr">>),
     JsHook("begin_block", <<"func", "instr">>),
     JsHook("end_block", <<"func", "instr", "begin_instr">>),
     JsHook("begin_loop", <<"func", "instr">>),
     JsHook("end_loop", <<"func", "instr", "begin_instr">>),
     JsHook("begin_if", <<"func", "instr">>),
     JsHook("end_if", <<"func", "instr", "if_instr">>),
     JsHook("begin_else", <<"func", "instr", "if_instr">>),
     JsHook("end_else", <<"func", "instr", "if_instr", "else_instr">>),
     JsHook("if_", <<"func", "instr", "condition">>),
     JsHook("br", <<"func", "instr", "target_label", "target_instr">>),
     JsHook("br_if", <<"func", "instr", "target_label", "target_instr", "condition">>),
     JsHook("br_table", <<"func", "instr", "br_table_info_idx", "table_idx">>) >>

\* Instr::to_js_hook, for the monomorphic instruction info
to_js_hook(info) ==
  JsHook(info.name,
         <<"func", "instr">>
         \o (CASE info.group = "Const" -> arg("v", info.results[1])
               [] info.group = "Unary" ->
                    arg("input", info.inputs[1]) \o arg("result", info.results[1])
               [] info.group = "Binary" ->
                    arg("first", info.inputs[1]) \o arg("second", info.inputs[2])
                    \o arg("result", info.results[1])
               [] info.group = "MemoryLoad" ->
                    <<"offset", "align", "addr">> \o arg("v", info.results[1])
               [] info.group = "MemoryStore" ->
                    <<"offset", "align", "addr">> \o arg("v", info.inputs[1])))

\* the parameters name0, name1, ... for values of the types tys
numbered_args(name, tys) ==
  Flatten([i \in DOMAIN tys |-> arg(name \o ToString(i - 1), tys[i])])

\* Instr::to_poly_js_hook, for the instruction with discriminant d and the
\* types tys: one property, and for return a copy with "return" replaced by
\* "call_post"
to_poly_js_hook(d, tys) ==
  LET hook_name == append_mangled_tys(d, tys)
  IN CASE d = "return" ->
            << JsHook(hook_name, <<"func", "instr">> \o numbered_args("result", tys)),
               JsHook(append_mangled_tys("call_post", tys),
                      <<"func", "instr">> \o numbered_args("result", tys)) >>
       [] d = "call" ->
            << JsHook(hook_name, <<"func", "instr", "targetFunc">> \o numbered_args("arg", tys)) >>
       [] d = "call_indirect" ->
            << JsHook(hook_name,
                      <<"func", "instr", "targetTableIdx">> \o numbered_args("arg", tys)) >>
       [] d = "drop" -> << JsHook(hook_name, <<"func", "instr">> \o arg("v", tys[1])) >>
       [] d = "select" ->
            << JsHook(hook_name, <<"func", "instr", "condition">>
                                 \o arg("first", tys[1]) \o arg("second", tys[2])) >>
       [] d \in {"get_local", "set_local", "tee_local", "get_global", "set_global"} ->
            << JsHook(hook_name, <<"func", "instr", "index">> \o arg("v", tys[1])) >>

\* what one registration pushes on on_demand_hooks: PolymorphicHookMap::add
\* and add_hook_from_instr push one entry each, add_hook alone pushes none
js_hooks_of(reg) ==
  CASE reg.map = "polymorphic" -> to_poly_js_hook(reg.key.d, reg.key.tys)
    [] reg.map = "monomorphic" -> <<to_js_hook(group(Plain(reg.key)))>>
    [] OTHER -> <<>>

NoJsHook == JsHook("", <<>>)
IsJsHook(h) == h # NoJsHook

\* on_demand_hooks after the registrations regs (a registration pushes at
\* most two entries)
on_demand_hooks(regs) ==
  LET slot(k) ==
        LET hs == js_hooks_of(regs[(k + 1) \div 2])
            j == 2 - (k % 2)
        IN IF j <= Len(hs) THEN hs[j] ELSE NoJsHook
  IN SelectSeq([k \in 1..(2 * Len(regs)) |-> slot(k)], IsJsHook)

\* js_codegen: the properties of lowlevelHooks for a module with functions fs
lowlevelHooks(fs) == StaticJsHooks \o on_demand_hooks(Registrations(fs))

-----------------------------------------------------------------------------
(* The pass on bodies that need not be well nested: structured            *)
(* instructions and branches in any order, the body ending anywhere.      *)
(* A panic of the pass leaves pc at its cause.                            *)

\* the longest body
MaxNestBody == 4
\* the labels of the branches: up to one more than the deepest nesting that
\* leaves room for a branch
Labels == 0..(MaxNestBody - 1)

InitNesting == InitWith(<< <<>> >>, Module1, Globals1, MaxNestBody, <<>>)

\* one iteration of the loop over original_body, whatever the instruction
StepAny(instr) ==
  /\ pc = "instr"
  /\ Len(original_body) < limit
  /\ \E r \in {arm(PassState, iidx, location, instr)} :
       /\ pc' = IF r.panic # "" THEN r.panic ELSE "instr"
       /\ instrumented_body' = instrumented_body \o r.out
       /\ block_stack' = r.block_stack
       /\ type_stack' = r.type_stack
       /\ locals' = r.locals
       /\ module_info' = [module_info EXCEPT !.br_tables = r.br_tables]
  /\ original_body' = Append(original_body, instr)
  /\ prev' = [ctrl |-> ctrl, nlocals |-> Len(locals), at |-> Len(instrumented_body)]
  /\ UNCHANGED <<tables, functions, globals, hookvars, fidx, ctrl, probe, limit>>

AnyBlockLoop == \E instr \in {Block(<<>>), Loop(<<>>)} : StepAny(instr)
AnyIf == StepAny(If(<<>>))
AnyElse == StepAny(Else)
AnyEnd == StepAny(End)
AnyBr == \E l \in Labels : StepAny(Br(l))
AnyBrIf == \E l \in Labels : StepAny(BrIf(l))
AnyConst == StepAny(I32Const(1))

\* the loop over original_body is over
BodyEnds ==
  /\ pc = "instr"
  /\ pc' = "end_body"
  /\ UNCHANGED <<modvars, hookvars, funvars, probe, limit>>

NextNesting ==
  \/ ExportTables
  \/ RegisterHooks
  \/ BeginFunction
  \/ AnyBlockLoop
  \/ AnyIf
  \/ AnyElse
  \/ AnyEnd
  \/ AnyBr
  \/ AnyBrIf
  \/ AnyConst
  \/ BodyEnds
  \/ EndBody
  \/ Finish

SpecNesting == InitNesting /\ [][NextNesting]_vars

-----------------------------------------------------------------------------
(* The properties *)

Emitting == pc \in {"instr", "end_body"}

\* the runs after and alone leave the same stack, the same globals and the
\* same values in the locals that existed before the instruction
SameEffect(a, b) ==
  /\ a.ok /\ b.ok
  /\ a.stack = b.stack
  /\ a.globals = b.globals
  /\ SubSeq(a.locals, 1, prev.nlocals) = SubSeq(b.locals, 1, prev.nlocals)

\* C1 as the spec states it: whatever instruction is handled, on the operand
\* stack the instruction is valid on, the emitted rewrite (a hook call pops
\* its parameters and pushes nothing) runs the original instruction on the
\* same stack the original found, and leaves what the original alone leaves.
\* Violated: for drop the rewrite does not run the original instruction.
C1_OriginalRunsOnSameStack ==
  Handled => \A a \in {After}, b \in {Alone} : SameEffect(a, b) /\ a.log = b.log

\* C1, amended: the emitted rewrite leaves the stack, the globals and the
\* old locals as the original instruction alone leaves them; an instruction
\* other than drop is run by the rewrite on the same stack the original
\* found; for drop no instruction of the input runs, and the rewrite starts
\* with set_local of a fresh local, which takes the operand of the drop.
C1_StackEffect ==
  Handled =>
    \A a \in {After}, b \in {Alone} :
      /\ SameEffect(a, b)
      /\ IF LastInstr = Drop
         THEN /\ a.log = <<>>
              /\ LastSegment[1] = SetLocal(prev.nlocals)
              /\ a.locals[prev.nlocals + 1] = Last(Before.stack)
         ELSE a.log = b.log

\* C1 happens: an i64.add was rewritten, its hook was called once, with the
\* split operands and result, and the sum is left on the stack
C1_Witness ==
  /\ Handled
  /\ LastInstr.op = "i64.add"
  /\ Len(After.hooks) = 1
  /\ Len(After.hooks[1].args) = 8
  /\ After.stack = Alone.stack

\* the type the pass popped for the drop or select handled last: the type
\* of the fresh local it allocated for the operand
PoppedType == locals[prev.nlocals + (IF LastInstr = Drop THEN 1 ELSE 2)]
\* the type of that operand on the Wasm operand stack
ActualType ==
  LET o == Opd(prev.ctrl) IN IF LastInstr = Drop THEN Last(o) ELSE o[Len(o) - 1]
\* the name of the hook called at the end of the last rewrite
LastHookName == functions[Last(LastSegment).n + 1].import[2]

\* C2: for every drop and select of a valid body, the type the pass pops
\* from its type stack, which types the fresh local and picks the drop_<t>
\* or select_<t>_<t> hook, is the type of the operand on the Wasm stack.
\* Violated: the arm of if leaves the condition on the type stack.
C2_PoppedTypeIsActual ==
  (Handled /\ LastInstr.op \in {"drop", "select"}) =>
    /\ PoppedType = ActualType
    /\ LastHookName =
         append_mangled_tys(LastInstr.op,
                            IF LastInstr = Drop THEN <<ActualType>>
                            ELSE <<ActualType, ActualType>>)

\* C3: the rewrite emitted for an instruction of a valid body is well typed:
\* every set_local and tee_local stores a value of the local's declared
\* type, and every hook call finds values of its parameters' types, in
\* number and type.  Violated as a consequence of C2.
C3_WellTyped == Handled => \A a \in {After} : a.ok /\ a.typed

\* a call of a hook
IsHookCall(instr) == instr.op = "call" /\ instr.n >= Len(module_info.functions)

\* C4: for every instruction of a valid body, call_indirect of any function
\* type included, the pass finds a registered hook and emits a call of it;
\* it never panics for want of a hook.  Violated: call_indirect with a type
\* whose parameters are those of no function of the module.
C4_HookFound ==
  /\ pc # "no_hook"
  /\ Handled => \E i \in DOMAIN LastSegment : IsHookCall(LastSegment[i])

RECURSIVE Embeds(_, _, _, _)
\* a from its k-th element on is a subsequence of b from position from on
Embeds(a, k, b, from) ==
  IF k > Len(a) THEN TRUE
  ELSE LET at == {j \in from..Len(b) : b[j] = a[k]}
       IN at # {} /\ Embeds(a, k + 1, b, (CHOOSE j \in at : \A i \in at : j <= i) + 1)
IsSubsequence(a, b) == Embeds(a, 1, b, 1)

NotDrop(instr) == instr.op # "drop"

\* C5 as the spec states it: the original instructions, with their
\* immediates, are a subsequence of the new body, in the original order.
\* Violated: a drop is not emitted.
C5_OriginalIsSubsequence == Emitting => IsSubsequence(original_body, instrumented_body)

\* C5, amended: the original instructions other than drop, with their
\* immediates, are a subsequence of the new body, in the original order; the
\* new body holds no drop.
C5_OriginalButDropsIsSubsequence ==
  Emitting =>
    /\ IsSubsequence(SelectSeq(original_body, NotDrop), instrumented_body)
    /\ \A i \in DOMAIN instrumented_body : instrumented_body[i].op # "drop"

\* C5 happens: a drop was handled, and after it an instruction that the new
\* body holds
C5_Witness ==
  /\ Emitting
  /\ \E i \in DOMAIN original_body : original_body[i] = Drop /\ i < Len(original_body)
  /\ LastInstr.op = "nop"
  /\ \E j \in DOMAIN LastSegment : LastSegment[j] = LastInstr

IsStructured(instr) == instr.op \in {"block", "loop", "if", "else", "end"}

\* C6: the block, loop, if, else and end instructions of the new body are
\* those of the input, in the same order: the pass inserts none and drops
\* none, so the nesting is that of the input.
C6_SameStructure ==
  Emitting =>
    SelectSeq(instrumented_body, IsStructured) = SelectSeq(original_body, IsStructured)

\* C6 happens: the input has an if with an else inside a block, all closed
C6_Witness ==
  /\ Emitting
  /\ Len(original_body) >= 4
  /\ original_body[1].op = "i32.const"
  /\ original_body[2].op = "if"
  /\ original_body[3].op = "else"
  /\ original_body[4].op = "end"

\* C7: for n >= 0 distinct locals, the instructions of save_stack_to_locals
\* run on a stack of at least n values leave the stack as it was and leave
\* in locals[i] the value i-th from the bottom of the top n; for n = 0 there
\* are no instructions.
C7_SaveStack ==
  pc = "probed" =>
    LET n == Len(probe.locals)
        a == probe.after
        b == probe.before
    IN /\ a.ok
       /\ a.stack = b.stack
       /\ \A i \in 1..n : a.locals[probe.locals[i] + 1] = TopN(b.stack, n)[i]
       /\ n = 0 => probe.code = <<>>

\* C7 happens: two or more locals were saved from a stack that holds more
C7_Witness ==
  /\ pc = "probed"
  /\ Len(probe.locals) >= 2
  /\ Len(probe.before.stack) > Len(probe.locals)
  /\ probe.after.locals[probe.locals[2] + 1] = Last(probe.before.stack)

\* Long(low, high): high * 2^32 + low
Long(low, high) == <<low[1], low[2], high[1], high[2]>>
\* the halves of the 64-bit v as i32 values
LowHalf(v) == Value(I32, <<v[1], v[2], 0, 0>>)
HighHalf(v) == Value(I32, <<v[3], v[4], 0, 0>>)

\* C8: the split of a 64-bit v pushes low = v mod 2^32, then high = v
\* shifted right by 32, and Long(low, high) is v; for i64.const v; return in
\* a function that returns an i64 the hooks of both instructions get the
\* location, low and high (42 and 0 for v = 42).
C8_Split ==
  /\ pc = "probed" =>
       /\ probe.stack = <<LowHalf(probe.v), HighHalf(probe.v)>>
       /\ Long(probe.stack[1].v, probe.stack[2].v) = probe.v
  /\ (pc = "instr" /\ Len(original_body) = 2) =>
       \A w \in {WholeRun} :
         /\ w.ok
         /\ Len(w.hooks) = 3
         /\ w.hooks[2] = [name |-> "i64.const",
                          args |-> <<Value(I32, Limbs32(fidx)), Value(I32, Limbs32(0)),
                                     LowHalf(probe.v), HighHalf(probe.v)>>]
         /\ w.hooks[3] = [name |-> "return_i64",
                          args |-> <<Value(I32, Limbs32(fidx)), Value(I32, Limbs32(1)),
                                     LowHalf(probe.v), HighHalf(probe.v)>>]

\* C8 happens: i64.const 42; return was rewritten and run, the return hook
\* got low = 42 and high = 0
C8_Witness ==
  /\ pc = "instr"
  /\ original_body = <<I64Const(<<42, 0, 0, 0>>), Return>>
  /\ WholeRun.hooks[3].args[3].v = <<42, 0, 0, 0>>
  /\ WholeRun.hooks[3].args[4].v = <<0, 0, 0, 0>>

RECURSIVE Expanded(_)
\* the types with every i64 as two i32
Expanded(tys) ==
  IF tys = <<>> THEN <<>>
  ELSE (IF Head(tys) = I64 THEN <<I32, I32>> ELSE <<Head(tys)>>) \o Expanded(Tail(tys))

\* the functions add_hooks appended to the module
Hooks == SubSeq(functions, Len(module_info.functions) + 1, Len(functions))

\* C9: every hook add_hooks registers is an import from "hooks" with no
\* result, whose parameters start with two i32 and hold no i64: they are the
\* two i32 and then the hook's arguments with every i64 as two i32.
C9_HookSignature ==
  pc = "function" =>
    \A regs \in {Registrations(module_info.functions)} :
      /\ Len(Hooks) = Len(regs)
      /\ \A i \in DOMAIN Hooks :
           LET f == Hooks[i]
               params == f.type_.params
           IN /\ ~f.code
              /\ f.import = <<"hooks", regs[i].name>>
              /\ f.type_.results = <<>>
              /\ Len(params) >= 2 /\ params[1] = I32 /\ params[2] = I32
              /\ \A j \in DOMAIN params : params[j] # I64
              /\ params = <<I32, I32>> \o Expanded(regs[i].arg_tys)

\* C9 happens: the hook of calls with arguments (i32, i64) is registered
\* with six i32 parameters
C9_Witness ==
  /\ pc = "function"
  /\ \E i \in DOMAIN Hooks :
       /\ Hooks[i].import = <<"hooks", "call_i32_i64">>
       /\ Hooks[i].type_.params = <<I32, I32, I32, I32, I32, I32>>

\* every table is exported: under "table" if it had no export, under its
\* name if it had one
TablesExported ==
  /\ Len(tables) = Len(probe.tables)
  /\ \A i \in DOMAIN tables :
       tables[i] = IF probe.tables[i] = <<>> THEN <<"table">> ELSE probe.tables[i]

\* C10 as the spec states it: after the table export every table is
\* exported, as above, and table 0 is always exported.  Violated: a module
\* without tables exports none.
C10_Table0AlwaysExported ==
  pc # "start" => TablesExported /\ Len(tables) >= 1 /\ tables[1] # <<>>

\* C10, amended: after the table export every table of the module is
\* exported, under "table" if it had no export and under its name if it had
\* one; table 0 is exported if the module has a table.
C10_TablesExported ==
  pc # "start" => TablesExported /\ (tables # <<>> => tables[1] # <<>>)

\* C10 happens: a table without export and a table exported as "tbl"
C10_Witness ==
  /\ pc = "hooks"
  /\ probe.tables = << <<>>, <<"tbl">> >>
  /\ tables = << <<"table">>, <<"tbl">> >>


-----------------------------------------------------------------------------
(* The hooks a module gets, and the hooks its bodies call *)

\* the pass is past the registration of the hooks
Registered == pc \notin {"start", "hooks"}

\* the names of the hooks called in a body
CalledHooks(body) ==
  {functions[body[i].n + 1].import[2] : i \in {j \in DOMAIN body : IsHookCall(body[j])}}
\* the names of the hooks called in the new bodies of the module
ObservedHooks == UNION {CalledHooks(functions[i].body) : i \in DOMAIN functions}
\* the control, begin and end hooks
FixedHooks == {CtlRegistrations[i][1] : i \in DOMAIN CtlRegistrations}

-----------------------------------------------------------------------------
(* The hook imports and the properties of lowlevelHooks *)

\* the properties js_codegen generates for the module
JsHooks == lowlevelHooks(module_info.functions)
\* the properties of the name of hook import f
JsOf(f) == SelectSeq(JsHooks, LAMBDA h : h.name = f.import[2])

\* C12: for every hook imported from "hooks" (monomorphic, polymorphic,
\* control, begin and end, memory size and grow, call_result_<R>) the
\* lowlevelHooks object has a property whose name is the import's name.
\* Violated: current_memory, grow_memory and call_result_<R> are imported,
\* the properties are memory_size, memory_grow and call_post_<R>.
C12_EveryImportHasProperty ==
  Registered => \A i \in DOMAIN Hooks : JsOf(Hooks[i]) # <<>>

\* C13: for every registered hook that has a forwarder of its name, the
\* forwarder has as many parameters as the import: func, instr, then one
\* per i32, f32 or f64 value and a _low, _high pair per i64 value.
\* Violated: begin_else and end_else have one parameter more than the
\* imports, whose calls push no value for it.
C13_ForwarderMirrorsSignature ==
  Registered =>
    \A js \in {JsHooks} :
      \A i \in DOMAIN Hooks :
        \A j \in DOMAIN js :
          js[j].name = Hooks[i].import[2] =>
            /\ Len(js[j].params) = Len(Hooks[i].type_.params)
            /\ SubSeq(js[j].params, 1, 2) = <<"func", "instr">>

-----------------------------------------------------------------------------
(* The new bodies of the scenarios *)

\* the original body is handled to its end and the new body is complete
BodyDone(body) == pc = "end_body" /\ original_body = body

\* the name of the hook a call of the new body calls
HookName(instr) == functions[instr.n + 1].import[2]
\* the positions of the new body that call the hook of the name
CallsOf(name) ==
  {j \in DOMAIN instrumented_body :
     IsHookCall(instrumented_body[j]) /\ HookName(instrumented_body[j]) = name}
\* the positions of the new body that call a hook
HookCalls == {j \in DOMAIN instrumented_body : IsHookCall(instrumented_body[j])}

\* a location of the function starts at position j of the new body:
\* i32.const fidx; i32.const i, with i = -1 or an index of the original body
IsLocationAt(j) ==
  /\ j < Len(instrumented_body)
  /\ instrumented_body[j] = I32Const(fidx)
  /\ \E i \in -1..(Len(original_body) - 1) : instrumented_body[j + 1] = I32Const(i)

RECURSIVE LocationPairsFrom(_)
\* the number of locations in the new body from position j on, read from
\* the left, a constant being part of one location at most
LocationPairsFrom(j) ==
  IF j >= Len(instrumented_body) THEN 0
  ELSE IF IsLocationAt(j) THEN 1 + LocationPairsFrom(j + 2)
  ELSE LocationPairsFrom(j + 1)
LocationPairs == LocationPairsFrom(1)

\* the hooks of get_local 0; get_local 1; i32.add; end
AddHooks ==
  /\ Cardinality(CallsOf("get_local_i32")) = 2
  /\ Cardinality(CallsOf("i32.add")) = 1
  /\ Cardinality(CallsOf("end_function")) = 1

\* C14 as the spec states it: the new body of a function (i32 i32) -> i32
\* with body get_local 0; get_local 1; i32.add; end holds exactly three
\* locations, calls get_local_i32 twice, i32.add once and end_function
\* once.  Violated: it holds five locations.
C14_ThreeLocations == BodyDone(BodyAdd) => LocationPairs = 3 /\ AddHooks

\* C14, amended: the new body holds exactly five locations, one of the
\* prologue and one for each of the four instructions, end included, each
\* followed by one hook call; it calls begin_function once, get_local_i32
\* twice, i32.add once and end_function once.
C14_FiveLocations ==
  BodyDone(BodyAdd) =>
    /\ LocationPairs = 5
    /\ Cardinality(HookCalls) = 5
    /\ Cardinality(CallsOf("begin_function")) = 1
    /\ AddHooks

\* C14 happens: the body of the scenario is handled, in a function that is
\* not the first of the module
C14_Witness ==
  /\ BodyDone(BodyAdd)
  /\ fidx = 1
  /\ Last(instrumented_body) = End
  /\ CallsOf("i32.add") # {}

-----------------------------------------------------------------------------
(* The nesting of the original body, read off the body itself *)

RECURSIVE OpenAt(_, _)
\* the indices of the instructions that opened the frames open before the
\* instruction of index n of the body, outermost first; the frame of the
\* function is not listed
OpenAt(body, n) ==
  IF n = 0 THEN <<>>
  ELSE LET open == OpenAt(body, n - 1)
           op == body[n].op
       IN IF op \in {"block", "loop", "if"} THEN Append(open, n - 1)
          ELSE IF op = "else" THEN Append(Front(open), n - 1)
          ELSE IF op = "end" /\ open # <<>> THEN Front(open)
          ELSE open

\* the index of the instruction that opened the frame the else or end of
\* index n closes, -1 for the frame of the function
MatchOf(body, n) ==
  LET open == OpenAt(body, n) IN IF open = <<>> THEN -1 ELSE Last(open)

\* the indices of the instructions of the original body with the opcode
IndicesOf(op) == {n \in 0..(Len(original_body) - 1) : original_body[n + 1].op = op}

\* the new body calls the hook of the name at the location of instruction n
CalledAt(name, n) ==
  \E j \in CallsOf(name) :
    j > 2 /\ instrumented_body[j - 2] = I32Const(fidx) /\ instrumented_body[j - 1] = I32Const(n)
\* the new body calls the end hook of the name with the constant begin
CalledWith(name, begin) ==
  \E j \in CallsOf(name) : j > 3 /\ instrumented_body[j - 1] = I32Const(begin)

\* C15: for every if ... else ... end region the if_ hook receives the
\* condition, begin_if, end_if, begin_else and end_else are all emitted,
\* end_if carries the index of the if and end_else the index of the else,
\* and the end at function level emits end_function.
\* Violated: no end_if is emitted for the region; at the else, end_else is
\* called with the index of the if.
C15_IfElseHooks ==
  /\ (Handled /\ LastInstr.op = "if") =>
       \A a \in {After} :
         /\ a.hooks # <<>>
         /\ a.hooks[1].name = "if_"
         /\ a.hooks[1].args[3] = Last(Before.stack)
  /\ pc = "end_body" =>
       /\ \A e \in IndicesOf("else") :
            LET i == MatchOf(original_body, e)
            IN /\ CalledAt("begin_if", i)
               /\ CalledAt("begin_else", e)
               /\ CalledWith("end_if", i)
               /\ CalledWith("end_else", e)
       /\ \A j \in CallsOf("end_if") : instrumented_body[j - 1].n \in IndicesOf("if")
       /\ \A j \in CallsOf("end_else") : instrumented_body[j - 1].n \in IndicesOf("else")
       /\ \A j \in HookCalls :
            (\A k \in HookCalls : k <= j) => HookName(instrumented_body[j]) = "end_function"

-----------------------------------------------------------------------------
(* The location the hooks receive *)

\* the hook calls of the rewrite emitted last
SegmentCalls == {j \in DOMAIN LastSegment : IsHookCall(LastSegment[j])}

\* C16: every hook call emitted for the instruction of index i of the
\* original body of function f receives (f, i) as its first two arguments;
\* the new body starts with const f; const -1; call begin_function and
\* calls begin_function nowhere else; the body end of function 0 becomes
\* const 0; const -1; call begin_function; const 0; const 0;
\* call end_function; end.
C16_Location ==
  /\ Handled =>
       \A a \in {After} :
         /\ Len(a.hooks) = Cardinality(SegmentCalls)
         /\ \A h \in DOMAIN a.hooks :
              /\ a.hooks[h].args[1] = Value(I32, Limbs32(fidx))
              /\ a.hooks[h].args[2] = Value(I32, Limbs32(Len(original_body) - 1))
  /\ Emitting =>
       /\ SubSeq(instrumented_body, 1, 3)
            = <<I32Const(fidx), I32Const(-1), hook("begin_function")>>
       /\ CallsOf("begin_function") = {3}
  /\ (BodyDone(BodyEnd) /\ fidx = 0) =>
       instrumented_body = <<I32Const(0), I32Const(-1), hook("begin_function"),
                             I32Const(0), I32Const(0), hook("end_function"), End>>

\* C16 happens: in function 2 the instruction of index 4, a br_table, got
\* its hook call, which is not at index 4 of the new body
C16_Witness ==
  /\ Handled
  /\ fidx = 2
  /\ Len(original_body) = 5
  /\ LastInstr.op = "br_table"
  /\ Len(After.hooks) = 1
  /\ Len(instrumented_body) > 20

-----------------------------------------------------------------------------
(* The records of the br_table instructions *)

IsBrTable(instr) == instr.op = "br_table"
\* the record of a br_table instruction: its targets and its default
InfoOf(instr) == BrTableInfo(instr.t, instr.n)
\* the records of the br_table instructions of the bodies, in their order
InfosOf(bodies) ==
  LET all == SelectSeq(Flatten(bodies), IsBrTable) IN [k \in DOMAIN all |-> InfoOf(all[k])]

\* the constants the new body passes to the br_table hook, in their order
BrTableConsts(body) ==
  LET calls == SelectSeq([j \in DOMAIN body |-> j],
                         LAMBDA j : IsHookCall(body[j]) /\ HookName(body[j]) = "br_table")
  IN [k \in DOMAIN calls |-> body[calls[k] - 2].n]

\* C17: each br_table instruction handled appends one record, its targets
\* and its default, to module_info.br_tables, and its hook receives the
\* index of that record and the selector; when all functions are done the
\* list holds the records of the br_table instructions of the module in
\* the order they were handled, and the constants passed in the new bodies
\* are 0, 1, 2, ..., each once, over all functions.
C17_BrTableRecords ==
  /\ Emitting =>
       module_info.br_tables
         = InfosOf(SubSeq(probe.bodies, 1, fidx) \o <<original_body>>)
  /\ (Handled /\ IsBrTable(LastInstr)) =>
       \A a \in {After} :
         /\ Len(a.hooks) = 1
         /\ a.hooks[1].name = "br_table"
         /\ a.hooks[1].args[3] = Value(I32, Limbs32(Len(module_info.br_tables) - 1))
         /\ a.hooks[1].args[4] = Last(Before.stack)
         /\ Last(module_info.br_tables) = InfoOf(LastInstr)
  /\ pc = "done" =>
       /\ module_info.br_tables = InfosOf(probe.bodies)
       /\ \A all \in {Flatten([f \in DOMAIN probe.bodies |-> BrTableConsts(functions[f].body)])} :
            /\ Len(all) = Len(module_info.br_tables)
            /\ \A k \in DOMAIN all : all[k] = k - 1

\* C17 happens: the br_table of the second of two functions got record 1,
\* with targets 0 1 and default 0, after the br_table of the first
C17_Witness ==
  /\ Handled
  /\ IsBrTable(LastInstr)
  /\ module_info.br_tables = <<BrTableInfo(<<>>, 0), BrTableInfo(<<0, 1>>, 0)>>
  /\ After.hooks[1].args[3] = Value(I32, Limbs32(1))
  /\ BrTableConsts(functions[fidx].body) = <<0>>

-----------------------------------------------------------------------------
(* The hooks of a call *)

\* the values as the hooks receive them: an i64 as its low and high half
Split(vals) ==
  Flatten([k \in DOMAIN vals |->
             IF vals[k].ty = I64 THEN <<LowHalf(vals[k].v), HighHalf(vals[k].v)>>
             ELSE <<vals[k]>>])

\* C18: for a call of a function with parameters A and results R the
\* rewrite calls, before the call, the import call_<A> with parameters
\* (func, instr, target, A with each i64 as two i32) and, after it, the
\* import call_result_<R> with parameters (func, instr, R with each i64 as
\* two i32); they receive the location, the target and the arguments, and
\* the location and the results.  For (i32, i64) -> (f64) they are
\* call_i32_i64 with six i32 and call_result_f64 with (i32, i32, f64).
C18_CallHooks ==
  (Handled /\ LastInstr.op = "call") =>
    LET target == LastInstr.n
        A == module_info.functions[target + 1].type_.params
        R == module_info.functions[target + 1].type_.results
        calls == SelectSeq(LastSegment, IsHookCall)
        pre == functions[calls[1].n + 1]
        post == functions[calls[2].n + 1]
        loc == <<Value(I32, Limbs32(fidx)), Value(I32, Limbs32(Len(original_body) - 1))>>
    IN /\ Len(calls) = 2
       /\ pre.import = <<"hooks", append_mangled_tys("call", A)>>
       /\ pre.type_ = FunctionType(<<I32, I32, I32>> \o Expanded(A), <<>>)
       /\ post.import = <<"hooks", append_mangled_tys("call_result", R)>>
       /\ post.type_ = FunctionType(<<I32, I32>> \o Expanded(R), <<>>)
       /\ \E j \in DOMAIN LastSegment :
            j > 1 /\ LastSegment[j] = LastInstr /\ LastSegment[j - 1] = calls[1]
       /\ Last(LastSegment) = calls[2]
       /\ \A a \in {After} :
            /\ Len(a.hooks) = 2
            /\ a.hooks[1].args
                 = loc \o <<Value(I32, Limbs32(target))>> \o Split(TopN(Before.stack, Len(A)))
            /\ a.hooks[2].args = loc \o Split(TopN(a.stack, Len(R)))
       /\ (A = <<I32, I64>> /\ R = <<F64>>) =>
            /\ pre.import[2] = "call_i32_i64"
            /\ pre.type_.params = <<I32, I32, I32, I32, I32, I32>>
            /\ post.import[2] = "call_result_f64"
            /\ post.type_.params = <<I32, I32, F64>>

\* C18 happens: a call of a function (i32, i64) -> (f64) was rewritten, the
\* hooks call_i32_i64 and call_result_f64 ran, the first with six
\* arguments
C18_Witness ==
  /\ Handled
  /\ LastInstr.op = "call"
  /\ module_info.functions[LastInstr.n + 1].type_ = FunctionType(<<I32, I64>>, <<F64>>)
  /\ Len(After.hooks) = 2
  /\ After.hooks[1].name = "call_i32_i64"
  /\ After.hooks[2].name = "call_result_f64"
  /\ Len(After.hooks[1].args) = 6

-----------------------------------------------------------------------------
(* The hooks of block, loop and end *)

\* C19: for every block the hook called right after it is begin_block, and
\* for every loop the hook called right after it is begin_loop.
\* Violated: the hook called after a loop is begin_block.
C19_BeginHook ==
  (Handled /\ LastInstr.op \in {"block", "loop"}) =>
    /\ LastSegment[1] = LastInstr
    /\ SegmentCalls = {Len(LastSegment)}
    /\ HookName(Last(LastSegment)) = "begin_" \o LastInstr.op

\* the frame of the begin instruction of index b of the original body
FrameOf(b) ==
  LET op == original_body[b + 1].op
  IN Begin(CASE op = "block" -> "Block" [] op = "loop" -> "Loop"
             [] op = "if" -> "If" [] op = "else" -> "Else", b)

\* C20: at every end of a well-nested body, at any depth, the frame popped
\* is the one pushed by the begin instruction the end closes: the end hook
\* emitted is that of the kind of that instruction (end_function,
\* end_block, end_loop, end_if, end_else) and, except for end_function,
\* its extra constant is the index of that instruction in the original
\* body; the frames left are those of the begins still open.
C20_EndMatchesBegin ==
  (Handled /\ LastInstr = End) =>
    LET b == MatchOf(original_body, Len(original_body) - 1)
        open == OpenAt(original_body, Len(original_body))
        n == Len(LastSegment)
    IN /\ SegmentCalls = {n - 1}
       /\ LastSegment[n] = End
       /\ IF b = -1
          THEN /\ n = 4
               /\ HookName(LastSegment[3]) = "end_function"
               /\ block_stack = <<>>
          ELSE /\ n = 5
               /\ HookName(LastSegment[4]) = "end_" \o original_body[b + 1].op
               /\ LastSegment[3] = I32Const(b)
               /\ block_stack = <<Begin_Function>> \o [k \in DOMAIN open |-> FrameOf(open[k])]

\* C20 happens: the end of a loop inside a block was handled, the block is
\* still open
C20_Witness ==
  /\ Handled
  /\ LastInstr = End
  /\ Len(original_body) >= 3
  /\ MatchOf(original_body, Len(original_body) - 1) >= 1
  /\ original_body[MatchOf(original_body, Len(original_body) - 1) + 1].op = "loop"
  /\ Len(block_stack) = 2
  /\ block_stack[2].kind = "Block"

-----------------------------------------------------------------------------
(* Bodies that need not be well nested *)

\* the pass has panicked
Fatal == pc \in {"nesting", "label", "type_stack", "no_hook"}

\* what stands for the frames of a body that is not well nested
IllNested == <<-2>>

RECURSIVE FramesAt(_, _)
\* the frames open before the instruction of index n of the body, read off
\* the body: -1 for the frame of the function, else the index of the
\* instruction that opened the frame, an else taking the place of its if;
\* IllNested after an end that finds no frame or an else that finds no if
FramesAt(body, n) ==
  IF n = 0 THEN <<-1>>
  ELSE LET s == FramesAt(body, n - 1)
           op == body[n].op
       IN IF s = IllNested THEN IllNested
          ELSE IF op \in {"block", "loop", "if"} THEN Append(s, n - 1)
          ELSE IF op = "else" THEN
            IF s # <<>> /\ Last(s) >= 0 /\ body[Last(s) + 1].op = "if"
            THEN Append(Front(s), n - 1) ELSE IllNested
          ELSE IF op = "end" THEN IF s = <<>> THEN IllNested ELSE Front(s)
          ELSE s

\* the frames the last instruction met
FramesBefore == FramesAt(original_body, Len(original_body) - 1)

-----------------------------------------------------------------------------
(* The place of the hook calls of the instructions that transfer control *)

\* the parameter and result types of the function a call or call_indirect
\* calls
CalleeType(instr) ==
  IF instr.op = "call" THEN module_info.functions[instr.n + 1].type_
  ELSE FunctionType(instr.p, instr.r)

\* C22: in the new body the hook call of a br, br_if, br_table or return
\* comes right before the instruction, which ends its rewrite; for a call
\* and a call_indirect the call_<A> or call_indirect_<A> hook call comes
\* right before the instruction and the call_result_<R> hook call after
\* it, at the end of the rewrite, so before the rewrite of the next
\* original instruction; the rewrite holds no other hook call.
C22_HookBeforeTransfer ==
  Handled =>
    LET seg == LastSegment
        n == Len(seg)
        op == LastInstr.op
    IN /\ op \in {"br", "br_if", "br_table", "return"} =>
            /\ seg[n] = LastInstr
            /\ SegmentCalls = {n - 1}
            /\ HookName(seg[n - 1])
                 = IF op = "return"
                   THEN append_mangled_tys("return", functions[fidx + 1].type_.results)
                   ELSE op
       /\ op \in {"call", "call_indirect"} =>
            \E j \in 2..(n - 1) :
              /\ seg[j] = LastInstr
              /\ SegmentCalls = {j - 1, n}
              /\ HookName(seg[j - 1]) = append_mangled_tys(op, CalleeType(LastInstr).params)
              /\ HookName(seg[n])
                   = append_mangled_tys("call_result", CalleeType(LastInstr).results)

\* C22 happens: a call_indirect was rewritten and an instruction after it
C22_Witness ==
  /\ Handled
  /\ Len(original_body) = 4
  /\ original_body[3].op = "call_indirect"
  /\ CallsOf("call_indirect_i32") # {}
  /\ CallsOf("call_result_f64") # {}
  /\ \A j \in CallsOf("call_result_f64") : j <= prev.at

-----------------------------------------------------------------------------
(* C23: the block stack from the first frame to the postcondition *)

\* the frames open after the whole of the body read so far
FramesAfter == FramesAt(original_body, Len(original_body))
\* the block stack that mirrors a list of open frames
StackOf(s) ==
  [k \in DOMAIN s |->
     IF s[k] = -1 THEN Begin_Function
     ELSE Begin(CASE original_body[s[k] + 1].op = "block" -> "Block"
                  [] original_body[s[k] + 1].op = "loop" -> "Loop"
                  [] original_body[s[k] + 1].op = "if" -> "If"
                  [] OTHER -> "Else", s[k])]

\* C23: the block stack of a function starts as the single Function frame; while
\* the pass goes on, it holds exactly the frames the body has left open, so it is
\* empty once a well-nested body has closed its function frame; an end with no
\* frame left and an else whose top frame is not an If stop the pass at once with
\* the nesting failure; and the pass goes past a function only if its body left
\* no frame on the stack, a body that leaves frames ending in the nesting failure
C23_BlockStack ==
  /\ pc = "instr" /\ original_body = <<>> => block_stack = <<Begin_Function>>
  /\ pc \in {"instr", "end_body"} =>
       /\ FramesAfter # IllNested
       /\ block_stack = StackOf(FramesAfter)
  /\ original_body # <<>> /\ pc # "start" /\ pc # "hooks" /\ FramesAfter = IllNested =>
       /\ pc = "nesting"
       /\ LastInstr.op \in {"end", "else"}
       /\ fidx = 1
  /\ pc \in {"function", "done"} /\ fidx > 1 =>
       /\ FramesAfter = <<>>
       /\ block_stack = <<>>
  /\ pc = "nesting" =>
       \/ fidx = 1 /\ FramesAfter = IllNested
       \/ fidx > 1 /\ FramesAfter \notin {<<>>, IllNested} /\ block_stack = StackOf(FramesAfter)

\* block; end; end closes the function frame, and one more end finds no frame
C23_Witness ==
  /\ pc = "nesting"
  /\ Len(original_body) = 4
  /\ original_body[1].op = "block"
  /\ LastInstr = End
  /\ FramesBefore = <<>>
  /\ block_stack = <<>>
-----------------------------------------------------------------------------
(* C24: fresh locals *)

\* the positions of body that write the local x
WritesTo(body, x) == {j \in DOMAIN body : body[j].op \in {"set_local", "tee_local"} /\ body[j].n = x}
\* the positions of body that write a local
Writes(body) == {j \in DOMAIN body : body[j].op \in {"set_local", "tee_local"}}
\* the number of locals (parameters included) the function had before the pass
NumOriginalLocals == Len(OriginalLocals)

\* C24: the locals of a function only grow by appending: the original parameters
\* and locals keep their indices and types, the fresh locals of one instruction
\* take the indices from the old length of the local vector on, above those of
\* every earlier instruction, and no index is handed out twice; so the new body
\* writes an original local exactly where the original body does, every inserted
\* set_local or tee_local writes a fresh local, and each fresh local is written
\* by the instrumentation of the one instruction it was allocated for
C24_FreshLocals ==
  /\ pc = "instr" /\ original_body = <<>> => locals = OriginalLocals
  /\ Handled =>
       /\ NumOriginalLocals <= prev.nlocals
       /\ prev.nlocals <= Len(locals)
       /\ SubSeq(locals, 1, NumOriginalLocals) = OriginalLocals
       /\ \A x \in 0..(NumOriginalLocals - 1) :
            Cardinality(WritesTo(instrumented_body, x)) = Cardinality(WritesTo(original_body, x))
       /\ \A x \in NumOriginalLocals..(Len(locals) - 1) :
            Cardinality(WritesTo(instrumented_body, x)) = 1
       /\ \A j \in Writes(instrumented_body) :
            /\ instrumented_body[j].n < Len(locals)
            /\ j <= prev.at /\ instrumented_body[j].n >= NumOriginalLocals =>
                 instrumented_body[j].n < prev.nlocals
            /\ j > prev.at /\ instrumented_body[j] # LastInstr =>
                 instrumented_body[j].n >= prev.nlocals

\* two instructions that allocate: the second one's temporaries lie above the first one's
C24_Witness ==
  /\ Handled
  /\ Len(original_body) >= 2
  /\ NumOriginalLocals < prev.nlocals
  /\ prev.nlocals + 1 < Len(locals)
  /\ \E j \in Writes(LastSegment) : LastSegment[j].n = Len(locals) - 1
  /\ \E j \in Writes(instrumented_body) : j <= prev.at /\ instrumented_body[j].n = NumOriginalLocals
-----------------------------------------------------------------------------
(* C25: what the pass leaves alone *)

\* the functions of the module before the pass
OriginalFunctions == module_info.functions
\* the calls of a body that do not call a hook
OriginalCalls(body) ==
  SelectSeq(body, LAMBDA instr : instr.op = "call" /\ ~IsHookCall(instr))
\* function f (from 0) has been given its new body
Rewritten(f) == f < fidx \/ pc = "done"

\* C25: once the hooks are registered, the module is its original functions,
\* at their original indices, followed by the hook imports; no function changes
\* its type, its import or whether it has code; a function without code is as it
\* was, and so is every hook import; a function with code has no new body before
\* its turn and after its turn the one new body that starts with the location of
\* its own index and calls begin_function once; and the calls of the new body
\* that are not hook calls are the calls of the original body, in order, each
\* target being the function it was before the pass
C25_FrameOfThePass ==
  Registered =>
    /\ Len(OriginalFunctions) <= Len(functions)
    /\ Hooks = HookImports(Registrations(OriginalFunctions))
    /\ \A f \in 0..(Len(OriginalFunctions) - 1) :
         LET before == OriginalFunctions[f + 1]
             after == functions[f + 1]
         IN /\ after.type_ = before.type_
            /\ after.code = before.code
            /\ after.import = before.import
            /\ ~before.code => after = before
            /\ before.code /\ ~Rewritten(f) => after = before
            /\ before.code /\ Rewritten(f) =>
                 /\ Len(after.body) > 3
                 /\ SubSeq(after.body, 1, 3)
                      = <<I32Const(f), I32Const(-1), hook("begin_function")>>
                 /\ Cardinality({j \in DOMAIN after.body : after.body[j] = hook("begin_function")}) = 1
                 /\ OriginalCalls(after.body) = OriginalCalls(probe.bodies[f + 1])
                 /\ \A j \in DOMAIN after.body :
                      after.body[j].op = "call" => after.body[j].n < Len(functions)
    /\ pc \in {"function", "done"} /\ fidx > 0 /\ instrumented_body # <<>> =>
         functions[fidx].body = instrumented_body

\* the module with an import, a function that calls it and itself, after two
\* functions without code: both calls keep their targets
C25_Witness ==
  /\ pc = "done"
  /\ Len(OriginalFunctions) = 4
  /\ ~functions[3].code
  /\ functions[3] = OriginalFunctions[3]
  /\ OriginalCalls(functions[4].body) = <<Call(2), Call(3)>>
  /\ functions[4].body # OriginalFunctions[4].body
-----------------------------------------------------------------------------
(* C26: the import names of the hooks *)

MaxArity == 2
\* the type vectors of up to MaxArity value types
TypeVectors == UNION {[1..n -> ValType] : n \in 0..MaxArity}
\* the mnemonics add_hooks mangles with a type vector
MangledPrefixes ==
  {to_instr_name(instr) :
     instr \in {Return, GetLocal(0), SetLocal(0), TeeLocal(0), GetGlobal(0), SetGlobal(0),
                Drop, Select, Call(0), CallIndirect(<<>>, <<>>)}}
  \cup {"call_result"}
\* the names add_hooks registers as they are
PlainNames ==
  {CtlRegistrations[i][1] : i \in DOMAIN CtlRegistrations}
  \cup {MonomorphicInstrs[i].name : i \in DOMAIN MonomorphicInstrs}
\* the mangling tells any two (mnemonic, type vector) pairs apart and gives no plain name
ManglingInjective ==
  \A p1 \in MangledPrefixes : \A tys1 \in TypeVectors :
    \A name \in {append_mangled_tys(p1, tys1)} :
      /\ name \notin PlainNames
      /\ \A p2 \in MangledPrefixes : \A tys2 \in TypeVectors :
           name = append_mangled_tys(p2, tys2) => p1 = p2 /\ tys1 = tys2

\* C26: the hooks add_hooks registers for a module have pairwise different
\* import names, every import carrying the name of its registration; and the
\* mangling <mnemonic>_<t1>_<t2>... tells apart any two pairs of a mangled
\* mnemonic and a type vector of up to MaxArity types, an empty vector giving
\* <mnemonic>_, and never gives the name of a monomorphic or control hook
C26_UniqueNames ==
  Registered =>
    /\ \A regs \in {Registrations(OriginalFunctions)} :
         /\ Len(Hooks) = Len(regs)
         /\ \A i \in DOMAIN Hooks : Hooks[i].import = <<"hooks", regs[i].name>>
         /\ \A i, j \in DOMAIN regs : regs[i].name = regs[j].name => i = j
         /\ \A i \in DOMAIN regs :
              regs[i].map \in {"polymorphic", "call_result"} <=> regs[i].name \notin PlainNames
    /\ \A i, j \in DOMAIN Hooks : Hooks[i].import[2] = Hooks[j].import[2] => i = j
    /\ ManglingInjective

\* a module with an import (i32, i64) -> (f64) and a function () -> (): the
\* hooks call_, call_i32_i64, call_result_ and call_result_f64 are all there
C26_Witness ==
  /\ Registered
  /\ Len(OriginalFunctions) = 2
  /\ \A name \in {"call_", "call_i32_i64", "call_indirect_", "call_indirect_i32_i64",
                    "call_result_", "call_result_f64", "return_", "return_f64"} :
       \E i \in DOMAIN Hooks : Hooks[i].import[2] = name
====
